---- MODULE Spec2Model ----
(***************************************************************************)
(* Model of the netplan transaction coordinator of haproxy-configurator:   *)
(* the transaction journal (one JSON file per transaction id), the         *)
(* netplan document, the tracked-address map of netplan.Manager and the    *)
(* gRPC handlers of HAProxyManagerServer that drive them.                  *)
(*                                                                         *)
(* Strings whose characters matter (IP addresses, CIDRs, netplan address   *)
(* entries) are sequences of one-character strings, so that                *)
(* strings.HasPrefix, strings.Split, net.ParseIP and fmt.Sprintf are       *)
(* computed rather than assumed.  Interface identifiers are sequences of   *)
(* tokens in which "@" is always a token of its own, which is all that     *)
(* strings.Split(name, "@") observes.                                      *)
(***************************************************************************)
EXTENDS Integers, Sequences, FiniteSets, TLC

VARIABLES
    journal,      \* <transactionDir>/transaction-<id>.json, per id
    committed,    \* <transactionDir>/committed/transaction-<id>.json, per id
    netplanFile,  \* the netplan YAML document on disk (NoFile when absent)
    addresses,    \* Manager.addresses: IP -> interface
    last,         \* what the most recent call did: results and steps taken
    fresh,        \* per id, the staging calls that succeeded since the id had
                  \* no journal entry
    focus,        \* which calls last and fresh describe in detail
    mutex,        \* Manager.mutex: the goroutine that holds it, "" when free
    threads,      \* per goroutine, the call it is in: its position and locals
    config,       \* Manager.config.Netplan: the settings the Manager was made with
    backups       \* the files <ConfigPath>.backup-<timestamp>, per timestamp

\* last, fresh and focus are history: no operation of the program reads them
vars == <<journal, committed, netplanFile, addresses, last, fresh, focus,
          mutex, threads, config, backups>>

-----------------------------------------------------------------------------
(* Bounds of the model.                                                    *)

\* changes the transaction files (journal and committed directory) may hold
\* together; staging beyond it is not explored
MaxChanges == 2

-----------------------------------------------------------------------------
(* Strings.                                                                *)

Digits == <<"0", "1", "2", "3", "4", "5", "6", "7", "8", "9">>

IsDigit(c) == \E i \in 1..10 : Digits[i] = c

DigitVal(c) == (CHOOSE i \in 1..10 : Digits[i] = c) - 1

\* strings.HasPrefix
HasPrefix(s, prefix) ==
    /\ Len(prefix) <= Len(s)
    /\ SubSeq(s, 1, Len(prefix)) = prefix

\* strings.Index for a one-character separator; 0 when absent
IndexOf(s, c) ==
    IF \E i \in 1..Len(s) : s[i] = c
    THEN CHOOSE i \in 1..Len(s) : s[i] = c /\ \A j \in 1..(i - 1) : s[j] # c
    ELSE 0

\* strings.Split for a one-character separator: n separators give n+1 parts
RECURSIVE Split(_, _)
Split(s, c) ==
    LET i == IndexOf(s, c)
    IN  IF i = 0 THEN <<s>>
        ELSE <<SubSeq(s, 1, i - 1)>> \o Split(SubSeq(s, i + 1, Len(s)), c)

\* decimal value of a string of digits
RECURSIVE Atoi(_)
Atoi(s) ==
    IF Len(s) = 0 THEN 0
    ELSE Atoi(SubSeq(s, 1, Len(s) - 1)) * 10 + DigitVal(s[Len(s)])

\* the %d verb of fmt.Sprintf for a non-negative integer
RECURSIVE Itoa(_)
Itoa(n) ==
    IF n < 10 THEN <<Digits[n + 1]>>
    ELSE Itoa(n \div 10) \o <<Digits[(n % 10) + 1]>>

AllDigits(s) == Len(s) > 0 /\ \A i \in 1..Len(s) : IsDigit(s[i])

-----------------------------------------------------------------------------
(* net.ParseIP, net.ParseCIDR and IPNet.Contains for dotted-quad IPv4.     *)

\* one decimal field of an IPv4 address: digits only, no leading zero, <= 255
ValidOctet(f) ==
    /\ AllDigits(f)
    /\ Len(f) <= 3
    /\ (Len(f) > 1 => f[1] # "0")
    /\ Atoi(f) <= 255

\* net.ParseIP: the four octets, or the nil (empty) IP for anything that is
\* not a dotted-quad address
ParseIP(s) ==
    LET f == Split(s, ".")
    IN  IF Len(f) = 4 /\ \A i \in 1..4 : ValidOctet(f[i])
        THEN [i \in 1..4 |-> Atoi(f[i])]
        ELSE <<>>

Pow2(n) == IF n = 0 THEN 1 ELSE IF n = 1 THEN 2 ELSE IF n = 2 THEN 4
           ELSE IF n = 3 THEN 8 ELSE IF n = 4 THEN 16 ELSE IF n = 5 THEN 32
           ELSE IF n = 6 THEN 64 ELSE IF n = 7 THEN 128 ELSE 256

\* number of mask bits that fall into octet i (1..4) of a /ones mask
OctetBits(ones, i) ==
    LET r == ones - 8 * (i - 1)
    IN  IF r < 0 THEN 0 ELSE IF r > 8 THEN 8 ELSE r

\* octet b with all but its leading `bits` bits cleared
MaskOctet(b, bits) == (b \div Pow2(8 - bits)) * Pow2(8 - bits)

\* net.ParseCIDR: the masked network and the prefix length; Ok is FALSE
\* where ParseCIDR returns an error
ParseCIDR(s) ==
    LET i    == IndexOf(s, "/")
        addr == SubSeq(s, 1, i - 1)
        mask == SubSeq(s, i + 1, Len(s))
        ip   == ParseIP(addr)
        bad  == [Ok |-> FALSE, IP |-> <<>>, Ones |-> 0]
    IN  IF i = 0 \/ Len(ip) = 0 \/ ~AllDigits(mask) \/ Len(mask) > 2
        THEN bad
        ELSE IF Atoi(mask) > 32 THEN bad
        ELSE [Ok   |-> TRUE,
              IP   |-> [k \in 1..4 |-> MaskOctet(ip[k], OctetBits(Atoi(mask), k))],
              Ones |-> Atoi(mask)]

\* IPNet.Contains
Contains(cidr, ip) ==
    \A k \in 1..4 : MaskOctet(ip[k], OctetBits(cidr.Ones, k)) = cidr.IP[k]

-----------------------------------------------------------------------------
(* The strings the model works with.                                       *)

IP_A     == <<"1", "0", ".", "0", ".", "0", ".", "1">>            \* 10.0.0.1
IP_B     == <<"1", "0", ".", "0", ".", "0", ".", "1", "0">>       \* 10.0.0.10
IP_C     == <<"1", "7", "2", ".", "1", "6", ".", "0", ".", "5">>  \* 172.16.0.5
IP_NOMAP == <<"2", "0", "3", ".", "0", ".", "1", "1", "3", ".", "1">>
IP_EMPTY == <<>>                                                  \* ""
IP_BAD   == <<"1", "0", ".", "0", ".", "0">>                      \* 10.0.0

CIDR_192 == <<"1", "9", "2", ".", "1", "6", "8", ".", "1", ".", "0", "/", "2", "4">>
CIDR_10  == <<"1", "0", ".", "0", ".", "0", ".", "0", "/", "8">>
CIDR_172 == <<"1", "7", "2", ".", "1", "6", ".", "0", ".", "0", "/", "1", "6">>

Eth0     == <<"eth0">>
Vlan100  == <<"vlan100", "@", "eth0">>

\* config.Netplan.InterfaceMappings of the running configuration
InterfaceMappings ==
    << [Interface |-> Eth0,    Subnets |-> <<CIDR_192, CIDR_10>>],
       [Interface |-> Vlan100, Subnets |-> <<CIDR_172>>] >>

TxIds == {"t1", "t2"}

\* addresses passed to the staging calls where staging is what a run follows
IPInputs == {IP_A, IP_C, IP_NOMAP, IP_EMPTY, IP_BAD}

\* addresses of the configured subnets, staged where staging is the context
ContextIPs == {IP_A, IP_B}

-----------------------------------------------------------------------------
(* Subnet resolver.                                                        *)

\* index of the first subnet, from position k on, whose CIDR parses and
\* contains ip; 0 when there is none (invalid CIDRs are skipped)
RECURSIVE ScanSubnets(_, _, _)
ScanSubnets(subnets, k, ip) ==
    IF k > Len(subnets) THEN 0
    ELSE LET cidr == ParseCIDR(subnets[k])
         IN  IF cidr.Ok /\ Contains(cidr, ip) THEN k
             ELSE ScanSubnets(subnets, k + 1, ip)

\* the scan of the mappings gone wrong: the last mapping that contains ip wins
RECURSIVE ScanMappingsFromEnd(_, _, _)
ScanMappingsFromEnd(ms, m, ip) ==
    IF m > Len(ms) THEN [m |-> 0, k |-> 0]
    ELSE LET rest == ScanMappingsFromEnd(ms, m + 1, ip)
             k    == ScanSubnets(ms[m].Subnets, 1, ip)
         IN  IF rest.m # 0 THEN rest
             ELSE IF k # 0 THEN [m |-> m, k |-> k]
             ELSE rest

\* the first (mapping, subnet) pair, in declaration order, that contains ip
RECURSIVE ScanMappings(_, _, _)
ScanMappings(ms, m, ip) ==
    IF m > Len(ms) THEN [m |-> 0, k |-> 0]
    ELSE LET k == ScanSubnets(ms[m].Subnets, 1, ip)
         IN  IF k # 0 THEN [m |-> m, k |-> k]
             ELSE ScanMappings(ms, m + 1, ip)

\* Manager.findInterfaceForIP
findInterfaceForIP(ms, ipAddr) ==
    LET ip == ParseIP(ipAddr)
    IN  IF Len(ip) = 0 THEN [iface |-> <<>>, err |-> "invalid"]
        ELSE LET hit == ScanMappings(ms, 1, ip)
             IN  IF hit.m # 0
                 THEN [iface |-> ms[hit.m].Interface, err |-> "none"]
                 ELSE [iface |-> <<>>, err |-> "nomapping"]

\* getSubnetMaskForIP gone wrong: a string that is no IP address is treated
\* as an address of no subnet
getSubnetMaskForIPDefaulting(ms, ipAddr) ==
    LET ip  == ParseIP(ipAddr)
        hit == IF Len(ip) = 0 THEN [m |-> 0, k |-> 0] ELSE ScanMappings(ms, 1, ip)
    IN  IF hit.m # 0
        THEN [mask |-> <<"/">> \o Itoa(ParseCIDR(ms[hit.m].Subnets[hit.k]).Ones),
              err  |-> "none"]
        ELSE [mask |-> <<"/", "3", "2">>, err |-> "nosubnet"]

\* getSubnetMaskForIP gone wrong: its loops stop at another pair of mapping
\* and subnet than those of findInterfaceForIP, the last that contains the IP
getSubnetMaskForIPOfLastMatch(ms, ipAddr) ==
    LET ip == ParseIP(ipAddr)
    IN  IF Len(ip) = 0 THEN [mask |-> <<>>, err |-> "invalid"]
        ELSE LET hit == ScanMappingsFromEnd(ms, 1, ip)
             IN  IF hit.m # 0
                 THEN [mask |-> <<"/">> \o Itoa(ParseCIDR(ms[hit.m].Subnets[hit.k]).Ones),
                       err  |-> "none"]
                 ELSE [mask |-> <<"/", "3", "2">>, err |-> "nosubnet"]

\* Manager.getSubnetMaskForIP
getSubnetMaskForIP(ms, ipAddr) ==
    LET ip == ParseIP(ipAddr)
    IN  IF Len(ip) = 0 THEN [mask |-> <<>>, err |-> "invalid"]
        ELSE LET hit == ScanMappings(ms, 1, ip)
             IN  IF hit.m # 0
                 THEN [mask |-> <<"/">> \o Itoa(ParseCIDR(ms[hit.m].Subnets[hit.k]).Ones),
                       err  |-> "none"]
                 ELSE [mask |-> <<"/", "3", "2">>, err |-> "nosubnet"]

\* m.findInterfaceForIP and m.getSubnetMaskForIP under the running
\* configuration, tabulated over the addresses a caller may pass
InterfaceOf ==
    [ip \in IPInputs \cup ContextIPs |-> findInterfaceForIP(InterfaceMappings, ip)]

MaskOf ==
    [ip \in IPInputs \cup ContextIPs |-> getSubnetMaskForIP(InterfaceMappings, ip)]

-----------------------------------------------------------------------------
(* Interface-name parser.                                                  *)

\* parseInterfaceName gone wrong: any "@" makes a VLAN of the first two parts
parseInterfaceNameAtAny(interfaceName) ==
    LET parts == Split(interfaceName, "@")
    IN  IF Len(parts) >= 2
        THEN [vlanName |-> parts[1], nicName |-> parts[2], isVLAN |-> TRUE]
        ELSE [vlanName |-> <<>>, nicName |-> interfaceName, isVLAN |-> FALSE]

\* parseInterfaceName
parseInterfaceName(interfaceName) ==
    LET parts == Split(interfaceName, "@")
    IN  IF Len(parts) = 2
        THEN [vlanName |-> parts[1], nicName |-> parts[2], isVLAN |-> TRUE]
        ELSE [vlanName |-> <<>>, nicName |-> interfaceName, isVLAN |-> FALSE]

-----------------------------------------------------------------------------
(* Go maps as functions with a finite domain.                              *)

EmptyMap == [k \in {} |-> 0]

MapPut(f, k, v) == [x \in (DOMAIN f) \cup {k} |-> IF x = k THEN v ELSE f[x]]

MapDel(f, k) == [x \in (DOMAIN f) \ {k} |-> f[x]]

MapGet(f, k, zero) == IF k \in DOMAIN f THEN f[k] ELSE zero

-----------------------------------------------------------------------------
(* The netplan document.                                                   *)
(*                                                                         *)
(* On disk an interface or VLAN entry is a YAML mapping: a function from   *)
(* key to value.  In memory it is a NetplanInterface / NetplanVLAN struct  *)
(* whose Additional map holds the keys the struct does not know.  Of the   *)
(* known scalar keys the model carries dhcp4 (and id, link for VLANs);     *)
(* the others are handled by the same code pattern.                        *)

KnownInterfaceKeys == {"addresses", "dhcp4"}

KnownVLANKeys == {"id", "link", "addresses", "dhcp4"}

\* the zero value of NetplanInterface (what a lookup of a missing key gives)
ZeroInterface == [Addresses |-> <<>>, DHCP4 |-> FALSE, Additional |-> EmptyMap]

\* the zero value of NetplanVLAN
ZeroVLAN ==
    [ID |-> 0, Link |-> <<>>, Addresses |-> <<>>, DHCP4 |-> FALSE,
     Additional |-> EmptyMap]

\* NetplanInterface.UnmarshalYAML
UnmarshalInterface(raw) ==
    [Addresses  |-> IF "addresses" \in DOMAIN raw THEN raw["addresses"] ELSE <<>>,
     DHCP4      |-> IF "dhcp4" \in DOMAIN raw THEN raw["dhcp4"] ELSE FALSE,
     Additional |-> [k \in (DOMAIN raw) \ KnownInterfaceKeys |-> raw[k]]]

\* NetplanInterface.MarshalYAML
MarshalInterface(n) ==
    LET r0 == n.Additional
        r1 == IF Len(n.Addresses) > 0 THEN MapPut(r0, "addresses", n.Addresses) ELSE r0
        r2 == IF n.DHCP4 THEN MapPut(r1, "dhcp4", TRUE) ELSE r1
    IN  r2

\* NetplanVLAN.UnmarshalYAML
UnmarshalVLAN(raw) ==
    [ID         |-> IF "id" \in DOMAIN raw THEN raw["id"] ELSE 0,
     Link       |-> IF "link" \in DOMAIN raw THEN raw["link"] ELSE <<>>,
     Addresses  |-> IF "addresses" \in DOMAIN raw THEN raw["addresses"] ELSE <<>>,
     DHCP4      |-> IF "dhcp4" \in DOMAIN raw THEN raw["dhcp4"] ELSE FALSE,
     Additional |-> [k \in (DOMAIN raw) \ KnownVLANKeys |-> raw[k]]]

\* NetplanVLAN.MarshalYAML: id and link are always emitted
MarshalVLAN(n) ==
    LET r0 == MapPut(MapPut(n.Additional, "id", n.ID), "link", n.Link)
        r1 == IF Len(n.Addresses) > 0 THEN MapPut(r0, "addresses", n.Addresses) ELSE r0
        r2 == IF n.DHCP4 THEN MapPut(r1, "dhcp4", TRUE) ELSE r1
    IN  r2

\* no document at the configured path
NoFile ==
    [Exists |-> FALSE, Version |-> 0, Extra |-> EmptyMap,
     Ethernets |-> EmptyMap, Vlans |-> EmptyMap]

\* Manager.loadNetplanConfig, for a file that can be read and parsed: keys
\* under "network" other than version, ethernets and vlans are not decoded
loadNetplanConfig(file) ==
    IF ~file.Exists
    THEN [Version |-> 2, Ethernets |-> EmptyMap, Vlans |-> EmptyMap]
    ELSE [Version   |-> file.Version,
          Ethernets |-> [n \in DOMAIN file.Ethernets |->
                            UnmarshalInterface(file.Ethernets[n])],
          Vlans     |-> [n \in DOMAIN file.Vlans |->
                            UnmarshalVLAN(file.Vlans[n])]]

\* Manager.saveNetplanConfig, when it succeeds: the file it leaves on disk
saveNetplanConfig(netplanConfig) ==
    [Exists    |-> TRUE,
     Version   |-> netplanConfig.Version,
     Extra     |-> EmptyMap,
     Ethernets |-> [n \in DOMAIN netplanConfig.Ethernets |->
                       MarshalInterface(netplanConfig.Ethernets[n])],
     Vlans     |-> [n \in DOMAIN netplanConfig.Vlans |->
                       MarshalVLAN(netplanConfig.Vlans[n])]]

\* the loop "for _, addr := range Addresses { if strings.HasPrefix(addr, ip) }"
AddressExists(addrs, ip) == \E i \in 1..Len(addrs) : HasPrefix(addrs[i], ip)

\* the filter loop gone wrong: it drops the entries whose IP part is ip
FilterAddressesByIP(addrs, ip) ==
    LET keep(a) == Split(a, "/")[1] # ip IN SelectSeq(addrs, keep)

\* the filter loop of the remove case
FilterAddresses(addrs, ip) ==
    LET keep(a) == ~HasPrefix(a, ip) IN SelectSeq(addrs, keep)

\* Manager.applyChange: the changed configuration and the error
applyChange(netplanConfig, change) ==
    LET p == parseInterfaceName(change.Interface)
    IN  IF p.isVLAN
        THEN LET vlan == MapGet(netplanConfig.Vlans, p.vlanName, ZeroVLAN)
             IN  CASE change.Operation = "add" ->
                        IF AddressExists(vlan.Addresses, change.IPAddress)
                        THEN [cfg |-> netplanConfig, err |-> "none"]
                        ELSE LET v1 == [vlan EXCEPT !.Addresses =
                                            Append(@, change.IPAddress \o change.SubnetMask)]
                                 v2 == IF v1.Link = <<>>
                                       THEN [v1 EXCEPT !.Link = p.nicName] ELSE v1
                             IN  [cfg |-> [netplanConfig EXCEPT !.Vlans =
                                              MapPut(@, p.vlanName, v2)],
                                  err |-> "none"]
                   [] change.Operation = "remove" ->
                        LET v1 == [vlan EXCEPT !.Addresses =
                                      FilterAddresses(@, change.IPAddress)]
                        IN  [cfg |-> [netplanConfig EXCEPT !.Vlans =
                                         IF Len(v1.Addresses) = 0
                                         THEN MapDel(@, p.vlanName)
                                         ELSE MapPut(@, p.vlanName, v1)],
                             err |-> "none"]
                   [] OTHER -> [cfg |-> netplanConfig, err |-> "unknown operation"]
        ELSE LET iface == MapGet(netplanConfig.Ethernets, change.Interface, ZeroInterface)
             IN  CASE change.Operation = "add" ->
                        IF AddressExists(iface.Addresses, change.IPAddress)
                        THEN [cfg |-> netplanConfig, err |-> "none"]
                        ELSE LET i1 == [iface EXCEPT !.Addresses =
                                            Append(@, change.IPAddress \o change.SubnetMask)]
                             IN  [cfg |-> [netplanConfig EXCEPT !.Ethernets =
                                              MapPut(@, change.Interface, i1)],
                                  err |-> "none"]
                   [] change.Operation = "remove" ->
                        LET i1 == [iface EXCEPT !.Addresses =
                                      FilterAddresses(@, change.IPAddress)]
                        IN  [cfg |-> [netplanConfig EXCEPT !.Ethernets =
                                         IF Len(i1.Addresses) = 0
                                         THEN MapDel(@, change.Interface)
                                         ELSE MapPut(@, change.Interface, i1)],
                             err |-> "none"]
                   [] OTHER -> [cfg |-> netplanConfig, err |-> "unknown operation"]

-----------------------------------------------------------------------------
(* The transaction journal and the coordinator (netplan.Manager).          *)
(*                                                                         *)
(* A journal entry is the content of one transaction file.  The Manager's  *)
(* methods are operators on the record w of everything they can touch:     *)
(* journal, committed, netplanFile and addresses.  Their results carry the *)
(* error ("none" for nil) and the sequence of steps taken.                 *)
(* A write that fails leaves the file as it was; a journal file that       *)
(* exists can be read and parsed.                                          *)

\* a transaction id with path separators in it: x/../transaction-t2
TraversalId == "x/../transaction-t2"

\* the text of a transaction id, cut at its path separators and after
\* "transaction-"; an id without a separator is one piece
IdText(id) ==
    IF id = TraversalId
    THEN <<"x", "/", "..", "/", "transaction-", "t2">>
    ELSE <<id>>

\* filepath.Clean, as filepath.Join applies it, on the elements of a
\* relative path: an element ".." goes, and the element before it with it
RECURSIVE CleanPath(_, _)
CleanPath(elems, out) ==
    IF elems = <<>> THEN out
    ELSE IF Head(elems) = <<"..">> /\ out # <<>> /\ out[Len(out)] # <<"..">>
    THEN CleanPath(Tail(elems), SubSeq(out, 1, Len(out) - 1))
    ELSE CleanPath(Tail(elems), Append(out, Head(elems)))

\* the file that filepath.Join(dir, fmt.Sprintf("transaction-%s.json", id))
\* names, as the X of dir/transaction-X.json: journal and committed hold
\* the files of their directory by this X.  The ids of the model name files
\* of the directory itself, none below it
TransactionFile(id) ==
    LET name  == <<"transaction-">> \o IdText(id) \o <<".json">>
        clean == CleanPath(Split(name, "/"), <<>>)
    IN  clean[Len(clean)][2]

\* the zero value of Transaction
ZeroTransaction == [Status |-> "", Changes |-> <<>>]

\* loadTransaction gone wrong: a missing file reads as a new pending transaction
loadOrCreateTransaction(jr, id) ==
    IF id \in DOMAIN jr
    THEN [transaction |-> jr[id], err |-> "none"]
    ELSE [transaction |-> [Status |-> "pending", Changes |-> <<>>], err |-> "none"]

\* Manager.loadTransaction on the journal directory jr
loadTransaction(jr, id) ==
    LET file == TransactionFile(id)
    IN  IF file \in DOMAIN jr
        THEN [transaction |-> jr[file], err |-> "none"]
        ELSE [transaction |-> ZeroTransaction, err |-> "missing"]

\* Manager.saveTransaction, when it succeeds
saveTransaction(jr, id, transaction) == MapPut(jr, TransactionFile(id), transaction)

\* markTransactionFailed gone wrong: it writes the status of a finished commit
markTransactionCommitted(jr, id, markOk) ==
    LET l == loadTransaction(jr, id)
    IN  IF l.err # "none" THEN jr
        ELSE IF markOk
             THEN saveTransaction(jr, id, [l.transaction EXCEPT !.Status = "committed"])
             ELSE jr

\* Manager.markTransactionFailed; markOk: its saveTransaction succeeds
markTransactionFailed(jr, id, markOk) ==
    LET l == loadTransaction(jr, id)
    IN  IF l.err # "none" THEN jr
        ELSE IF markOk
             THEN saveTransaction(jr, id, [l.transaction EXCEPT !.Status = "failed"])
             ELSE jr

\* addChangeToTransaction gone wrong: the change is put first
addChangeInFront(w, id, change, saveOk) ==
    LET l == loadTransaction(w.journal, id)
        transaction ==
            IF l.err = "none" THEN l.transaction
            ELSE [Status |-> "pending", Changes |-> <<>>]
    IN  IF transaction.Status # "pending"
        THEN [w |-> w, err |-> "notPending"]
        ELSE IF ~saveOk
             THEN [w |-> w, err |-> "io"]
             ELSE [w   |-> [w EXCEPT !.journal = saveTransaction(@, id,
                               [transaction EXCEPT !.Changes = <<change>> \o @])],
                   err |-> "none"]

\* addChangeToTransaction gone wrong: the status is looked at after the save
addChangeThenCheck(w, id, change, saveOk) ==
    LET l == loadTransaction(w.journal, id)
        transaction ==
            IF l.err = "none" THEN l.transaction
            ELSE [Status |-> "pending", Changes |-> <<>>]
        saved == IF saveOk
                 THEN [w EXCEPT !.journal = saveTransaction(@, id,
                          [transaction EXCEPT !.Changes = Append(@, change)])]
                 ELSE w
    IN  IF ~saveOk THEN [w |-> w, err |-> "io"]
        ELSE IF transaction.Status # "pending"
             THEN [w |-> saved, err |-> "notPending"]
             ELSE [w |-> saved, err |-> "none"]

\* Manager.addChangeToTransaction; saveOk: its saveTransaction succeeds
addChangeToTransaction(w, id, change, saveOk) ==
    LET l == loadTransaction(w.journal, id)
        transaction ==
            IF l.err = "none" THEN l.transaction
            ELSE [Status |-> "pending", Changes |-> <<>>]
    IN  IF transaction.Status # "pending"
        THEN [w |-> w, err |-> "notPending"]
        ELSE IF ~saveOk
             THEN [w |-> w, err |-> "io"]
             ELSE [w   |-> [w EXCEPT !.journal = saveTransaction(@, id,
                               [transaction EXCEPT !.Changes = Append(@, change)])],
                   err |-> "none"]

\* AddIPAddressToTransaction gone wrong: it tracks the address at once, as
\* the untransacted AddIPAddress does
AddIPAddressTrackingAtOnce(w, id, ipAddr, port, saveOk) ==
    IF ipAddr = <<>> THEN [w |-> w, err |-> "validation"]
    ELSE LET f == InterfaceOf[ipAddr]
             m == MaskOf[ipAddr]
         IN  IF f.err = "invalid" THEN [w |-> w, err |-> "validation"]
             ELSE IF f.err # "none" THEN [w |-> w, err |-> "resolution"]
             ELSE LET r == addChangeToTransaction(w, id,
                             [Operation  |-> "add",
                              IPAddress  |-> ipAddr,
                              Interface  |-> f.iface,
                              Port       |-> port,
                              SubnetMask |-> IF m.err # "none" THEN <<"/", "3", "2">>
                                             ELSE m.mask],
                             saveOk)
                  IN  IF r.err # "none" THEN r
                      ELSE [r EXCEPT !.w.addresses = MapPut(@, ipAddr, f.iface)]

\* AddIPAddressToTransaction gone wrong: an address of no configured subnet
\* is staged all the same, with no interface and the mask "/32", and the
\* error of the lookup is returned
AddIPAddressDegrading(w, id, ipAddr, port, saveOk) ==
    IF ipAddr = <<>> THEN [w |-> w, err |-> "validation"]
    ELSE LET f == InterfaceOf[ipAddr]
             m == MaskOf[ipAddr]
             r == addChangeToTransaction(w, id,
                     [Operation  |-> "add",
                      IPAddress  |-> ipAddr,
                      Interface  |-> f.iface,
                      Port       |-> port,
                      SubnetMask |-> IF m.err # "none" THEN <<"/", "3", "2">> ELSE m.mask],
                     saveOk)
         IN  IF f.err = "invalid" THEN [w |-> w, err |-> "validation"]
             ELSE IF f.err # "none" /\ r.err = "none" THEN [r EXCEPT !.err = "resolution"]
             ELSE r

\* Manager.AddIPAddressToTransaction, with f and m what m.findInterfaceForIP
\* and m.getSubnetMaskForIP return for ipAddr under the Manager's mappings
AddIPAddressResolved(f, m, w, id, ipAddr, port, saveOk) ==
    IF ipAddr = <<>> THEN [w |-> w, err |-> "validation"]
    ELSE IF f.err = "invalid" THEN [w |-> w, err |-> "validation"]
    ELSE IF f.err # "none" THEN [w |-> w, err |-> "resolution"]
    ELSE addChangeToTransaction(w, id,
            [Operation  |-> "add",
             IPAddress  |-> ipAddr,
             Interface  |-> f.iface,
             Port       |-> port,
             SubnetMask |-> IF m.err # "none" THEN <<"/", "3", "2">> ELSE m.mask],
            saveOk)

\* Manager.AddIPAddressToTransaction of a Manager with the running
\* configuration
AddIPAddressToTransaction(w, id, ipAddr, port, saveOk) ==
    AddIPAddressResolved(InterfaceOf[ipAddr], MaskOf[ipAddr], w, id, ipAddr, port, saveOk)

\* Manager.RemoveIPAddressFromTransaction
RemoveIPAddressFromTransaction(w, id, ipAddr, saveOk) ==
    IF ipAddr = <<>> THEN [w |-> w, err |-> "validation"]
    ELSE LET f == InterfaceOf[ipAddr]
         IN  IF f.err = "invalid" THEN [w |-> w, err |-> "validation"]
             ELSE IF f.err # "none" THEN [w |-> w, err |-> "resolution"]
             ELSE addChangeToTransaction(w, id,
                     [Operation  |-> "remove",
                      IPAddress  |-> ipAddr,
                      Interface  |-> f.iface,
                      Port       |-> 0,
                      SubnetMask |-> <<>>],
                     saveOk)

\* the loop of CommitTransaction gone wrong: a change that does not apply ends
\* the loop without an error
RECURSIVE ApplyChangesUntilError(_, _, _)
ApplyChangesUntilError(netplanConfig, changes, i) ==
    IF i > Len(changes)
    THEN [cfg |-> netplanConfig, err |-> "none", n |-> Len(changes)]
    ELSE LET r == applyChange(netplanConfig, changes[i])
         IN  IF r.err # "none"
             THEN [cfg |-> r.cfg, err |-> "none", n |-> i - 1]
             ELSE ApplyChangesUntilError(r.cfg, changes, i + 1)

\* the loop of CommitTransaction gone wrong: it goes on to the changes after
\* the one that did not apply, and returns the first error at its end
RECURSIVE ApplyChangesPastError(_, _, _)
ApplyChangesPastError(netplanConfig, changes, i) ==
    IF i > Len(changes)
    THEN [cfg |-> netplanConfig, err |-> "none", n |-> 0]
    ELSE LET r    == applyChange(netplanConfig, changes[i])
             rest == ApplyChangesPastError(r.cfg, changes, i + 1)
         IN  IF r.err # "none"
             THEN [rest EXCEPT !.err = r.err]
             ELSE [rest EXCEPT !.n = @ + 1]

\* the loop of CommitTransaction over transaction.Changes: the configuration
\* after the changes that applied, the error of the first one that did not,
\* and the number of changes that applied
RECURSIVE ApplyChanges(_, _, _)
ApplyChanges(netplanConfig, changes, i) ==
    IF i > Len(changes)
    THEN [cfg |-> netplanConfig, err |-> "none", n |-> Len(changes)]
    ELSE LET r == applyChange(netplanConfig, changes[i])
         IN  IF r.err # "none"
             THEN [cfg |-> r.cfg, err |-> r.err, n |-> i - 1]
             ELSE ApplyChanges(r.cfg, changes, i + 1)

\* the loop "Update tracking state" of CommitTransaction
RECURSIVE UpdateTracking(_, _, _)
UpdateTracking(addrs, changes, i) ==
    IF i > Len(changes) THEN addrs
    ELSE LET c == changes[i]
         IN  UpdateTracking(
                 CASE c.Operation = "add"    -> MapPut(addrs, c.IPAddress, c.Interface)
                   [] c.Operation = "remove" -> MapDel(addrs, c.IPAddress)
                   [] OTHER                  -> addrs,
                 changes, i + 1)

\* the steps at which one run of CommitTransaction can be made to fail
CommitFaults == {"none", "loadDoc", "saveDoc", "activate", "saveTx", "rename"}

\* Manager.CommitTransaction.  fault: the first step that fails for a reason
\* outside the program; markOk: the write of markTransactionFailed succeeds
CommitTransaction(w, id, fault, markOk) ==
    LET l == loadTransaction(w.journal, id)
    IN
    IF l.err # "none"
    THEN [w |-> w, err |-> "missing", trace |-> <<"loadTxErr">>]
    ELSE
    LET transaction == l.transaction
        marked      == markTransactionFailed(w.journal, id, markOk)
    IN
    IF transaction.Status # "pending"
    THEN [w |-> w, err |-> "notPending", trace |-> <<"loadTx", "notPending">>]
    ELSE IF fault = "loadDoc"
    THEN [w |-> w, err |-> "loadDoc", trace |-> <<"loadTx", "loadDocErr">>]
    ELSE
    LET ap == ApplyChanges(loadNetplanConfig(w.netplanFile), transaction.Changes, 1)
        t1 == <<"loadTx", "loadDoc">> \o [k \in 1..ap.n |-> "apply"]
    IN
    IF ap.err # "none"
    THEN [w     |-> [w EXCEPT !.journal = marked],
          err   |-> "apply",
          trace |-> t1 \o <<"applyErr", "markFailed">>]
    ELSE IF fault = "saveDoc"
    THEN [w     |-> [w EXCEPT !.journal = marked],
          err   |-> "saveDoc",
          trace |-> t1 \o <<"saveDocErr", "markFailed">>]
    ELSE
    LET saved == saveNetplanConfig(ap.cfg)
    IN
    IF fault = "activate"
    THEN [w     |-> [w EXCEPT !.netplanFile = saved, !.journal = marked],
          err   |-> "activate",
          trace |-> t1 \o <<"saveDoc", "activateErr", "markFailed">>]
    ELSE
    LET w1 == [w EXCEPT !.netplanFile = saved,
                        !.addresses   = UpdateTracking(@, transaction.Changes, 1)]
        t2 == t1 \o <<"saveDoc", "activate", "track">>
        done == [transaction EXCEPT !.Status = "committed"]
    IN
    IF fault = "saveTx"
    THEN [w |-> w1, err |-> "saveTx", trace |-> t2 \o <<"saveTxErr">>]
    ELSE IF fault = "rename"
    THEN [w     |-> [w1 EXCEPT !.journal = saveTransaction(@, id, done)],
          err   |-> "archive",
          trace |-> t2 \o <<"saveTx", "archiveErr">>]
    ELSE [w     |-> [w1 EXCEPT !.journal   = MapDel(@, TransactionFile(id)),
                               !.committed = MapPut(@, TransactionFile(id), done)],
          err   |-> "none",
          trace |-> t2 \o <<"saveTx", "archive">>]

-----------------------------------------------------------------------------
(* Initial states.                                                         *)

\* a journal file for t2 that this program did not write: its second change
\* carries an operation applyChange does not know
ForeignEntry ==
    [Status  |-> "pending",
     Changes |-> << [Operation |-> "add", IPAddress |-> IP_A, Interface |-> Eth0,
                     Port |-> 80, SubnetMask |-> <<"/", "8">>],
                    [Operation |-> "update", IPAddress |-> IP_B, Interface |-> Eth0,
                     Port |-> 80, SubnetMask |-> <<"/", "8">>] >>]

InitJournals == {EmptyMap, MapPut(EmptyMap, "t2", ForeignEntry)}

Ports == {80}

NoCall ==
    [op |-> "none", id |-> "", rpcErr |-> FALSE, stage |-> "notInvoked",
     commit |-> "notInvoked", trace |-> <<>>]

\* the goroutines that serve calls side by side
Threads == {"g1", "g2"}

\* a goroutine that is in no call
NoThread ==
    [pc |-> "idle", op |-> "none", id |-> "", change |-> <<>>,
     transaction |-> ZeroTransaction, fault |-> "none", todo |-> <<>>,
     before |-> EmptyMap, final |-> <<>>, result |-> EmptyMap, seen |-> {},
     err |-> "none"]

\* config.Netplan of the running configuration: no backup is made on a save
RunningConfig == [InterfaceMappings |-> InterfaceMappings, BackupEnabled |-> FALSE]

\* NewManagerWithConfig over the journal directory found on disk, before any
\* netplan document has been written
InitManager ==
    /\ journal \in InitJournals
    /\ committed = EmptyMap
    /\ netplanFile = NoFile
    /\ addresses = EmptyMap
    /\ last = NoCall
    /\ fresh = [id \in TxIds |-> [tracking |-> id \notin DOMAIN journal, calls |-> <<>>]]
    /\ mutex = ""
    /\ threads = [t \in Threads |-> NoThread]
    /\ config = RunningConfig
    /\ backups = EmptyMap

-----------------------------------------------------------------------------
(* Actions: the calls of the coordinator and the RPCs of the service.      *)
(* An action binds the result r of the method it calls once, as the one    *)
(* element of a set, and states every variable from it.                    *)

World ==
    [journal |-> journal, committed |-> committed, netplanFile |-> netplanFile,
     addresses |-> addresses]

SetWorld(w) ==
    /\ journal' = w.journal
    /\ committed' = w.committed
    /\ netplanFile' = w.netplanFile
    /\ addresses' = w.addresses

RECURSIVE HeldChanges(_, _)
HeldChanges(dir, ids) ==
    IF ids = {} THEN 0
    ELSE LET id == CHOOSE x \in ids : TRUE
         IN  Len(dir[id].Changes) + HeldChanges(dir, ids \ {id})

WithinBounds(w) ==
    HeldChanges(w.journal, DOMAIN w.journal)
        + HeldChanges(w.committed, DOMAIN w.committed) <= MaxChanges

\* what last says of a call whose details the run does not follow
Unrecorded(name) == [NoCall EXCEPT !.op = name]

Record(kind, call) == IF focus = kind THEN call ELSE Unrecorded(call.op)

\* history of the staging calls on id, after a staging call with result r
FreshAfterStage(id, r, operation, ipAddr) ==
    IF focus = "stage" /\ r.err = "none" /\ fresh[id].tracking
    THEN [fresh EXCEPT ![id].calls = Append(@, [op |-> operation, ip |-> ipAddr])]
    ELSE fresh

\* history of the staging calls on id, after a commit that left journal jr
FreshAfterCommit(id, jr) ==
    IF focus # "stage" THEN fresh
    ELSE IF id \notin DOMAIN jr
    THEN [fresh EXCEPT ![id] = [tracking |-> TRUE, calls |-> <<>>]]
    ELSE IF id \in DOMAIN journal /\ jr[id] = journal[id] THEN fresh
    ELSE [fresh EXCEPT ![id] = [tracking |-> FALSE, calls |-> <<>>]]

\* a call of Manager.AddIPAddressToTransaction
StageAdd(id, ipAddr, port, saveOk) ==
    \E r \in {AddIPAddressToTransaction(World, id, ipAddr, port, saveOk)} :
        /\ WithinBounds(r.w)
        /\ SetWorld(r.w)
        /\ last' = Record("stage",
                     [op |-> "stageAdd", id |-> id, rpcErr |-> FALSE, stage |-> r.err,
                      commit |-> "notInvoked",
                      trace |-> IF r.err = "none" THEN <<"stage">> ELSE <<"stageErr">>])
        /\ fresh' = FreshAfterStage(id, r, "add", ipAddr)
        /\ UNCHANGED <<focus, config, backups, mutex, threads>>

\* a call of Manager.RemoveIPAddressFromTransaction
StageRemove(id, ipAddr, saveOk) ==
    \E r \in {RemoveIPAddressFromTransaction(World, id, ipAddr, saveOk)} :
        /\ WithinBounds(r.w)
        /\ SetWorld(r.w)
        /\ last' = Record("stage",
                     [op |-> "stageRemove", id |-> id, rpcErr |-> FALSE, stage |-> r.err,
                      commit |-> "notInvoked",
                      trace |-> IF r.err = "none" THEN <<"stage">> ELSE <<"stageErr">>])
        /\ fresh' = FreshAfterStage(id, r, "remove", ipAddr)
        /\ UNCHANGED <<focus, config, backups, mutex, threads>>

\* CommitTransaction gone wrong: the tracking state is updated although the
\* activation failed
CommitTrackingUnactivated(id, fault, markOk) ==
    \E r \in {CommitTransaction(World, id, fault, markOk)} :
        /\ SetWorld(IF r.err = "activate"
                    THEN [r.w EXCEPT !.addresses =
                             UpdateTracking(@, journal[id].Changes, 1)]
                    ELSE r.w)
        /\ last' = Record("commit",
                     [op |-> "commit", id |-> id, rpcErr |-> FALSE,
                      stage |-> "notInvoked", commit |-> r.err, trace |-> r.trace])
        /\ fresh' = FreshAfterCommit(id, r.w.journal)
        /\ UNCHANGED <<focus, config, backups, mutex, threads>>

\* CommitTransaction gone wrong: when activation fails the document is put
\* back as it was before the commit
CommitUndoingDocument(id, fault, markOk) ==
    \E r \in {CommitTransaction(World, id, fault, markOk)} :
        /\ SetWorld(IF r.err = "activate"
                    THEN [r.w EXCEPT !.netplanFile = netplanFile] ELSE r.w)
        /\ last' = Record("commit",
                     [op |-> "commit", id |-> id, rpcErr |-> FALSE,
                      stage |-> "notInvoked", commit |-> r.err, trace |-> r.trace])
        /\ fresh' = FreshAfterCommit(id, r.w.journal)
        /\ UNCHANGED <<focus, config, backups, mutex, threads>>

\* CommitTransaction gone wrong: an error of moveTransactionToCommitted is
\* logged and not returned
CommitSwallowingArchive(id, fault, markOk) ==
    \E r \in {CommitTransaction(World, id, fault, markOk)} :
        /\ SetWorld(r.w)
        /\ last' = Record("commit",
                     [op |-> "commit", id |-> id, rpcErr |-> FALSE,
                      stage |-> "notInvoked",
                      commit |-> IF r.err = "archive" THEN "none" ELSE r.err,
                      trace |-> r.trace])
        /\ fresh' = FreshAfterCommit(id, r.w.journal)
        /\ UNCHANGED <<focus, config, backups, mutex, threads>>

\* a call of Manager.CommitTransaction
Commit(id, fault, markOk) ==
    \E r \in {CommitTransaction(World, id, fault, markOk)} :
        /\ SetWorld(r.w)
        /\ last' = Record("commit",
                     [op |-> "commit", id |-> id, rpcErr |-> FALSE,
                      stage |-> "notInvoked", commit |-> r.err, trace |-> r.trace])
        /\ fresh' = FreshAfterCommit(id, r.w.journal)
        /\ UNCHANGED <<focus, config, backups, mutex, threads>>

\* an RPC rejected for its empty transaction id
Rejected(kind, name) ==
    /\ last' = Record(kind, [NoCall EXCEPT !.op = name, !.rpcErr = TRUE])
    /\ UNCHANGED <<journal, committed, netplanFile, addresses, fresh, focus, config, backups,
                      mutex, threads>>

\* CreateBindWithNetplan gone wrong: a failure to stage the address ends the
\* RPC with an error, before the load balancer is called
CreateBindRPCStrict(id, ipAddr, port, saveOk, lbOk) ==
    IF id = "" THEN Rejected("bind", "CreateBind")
    ELSE
    \E r \in {IF ipAddr # <<>>
               THEN AddIPAddressToTransaction(World, id, ipAddr, port, saveOk)
               ELSE [w |-> World, err |-> "notInvoked"]} :
    LET failed == r.err \notin {"none", "notInvoked"}
        t == IF r.err = "notInvoked" THEN <<>>
             ELSE IF r.err = "none" THEN <<"stage">> ELSE <<"stageErr">>
    IN  /\ WithinBounds(r.w)
        /\ SetWorld(r.w)
        /\ last' = Record("bind",
                     [op |-> "CreateBind", id |-> id, rpcErr |-> failed \/ ~lbOk,
                      stage |-> r.err, commit |-> "notInvoked",
                      trace |-> IF failed THEN t
                                ELSE t \o (IF lbOk THEN <<"lbAddBind">>
                                           ELSE <<"lbAddBindErr">>)])
        /\ fresh' = FreshAfterStage(id, r, "add", ipAddr)
        /\ UNCHANGED <<focus, config, backups, mutex, threads>>

\* HAProxyManagerServer.CreateBind / CreateBindWithNetplan, with a frontend
\* name and a bind.  lbOk: client.AddBind succeeds
CreateBindRPC(id, ipAddr, port, saveOk, lbOk) ==
    IF id = "" THEN Rejected("bind", "CreateBind")
    ELSE
    \E r \in {IF ipAddr # <<>>
               THEN AddIPAddressToTransaction(World, id, ipAddr, port, saveOk)
               ELSE [w |-> World, err |-> "notInvoked"]} :
    LET t == IF r.err = "notInvoked" THEN <<>>
             ELSE IF r.err = "none" THEN <<"stage">> ELSE <<"stageErr">>
    IN  /\ WithinBounds(r.w)
        /\ SetWorld(r.w)
        /\ last' = Record("bind",
                     [op |-> "CreateBind", id |-> id, rpcErr |-> ~lbOk, stage |-> r.err,
                      commit |-> "notInvoked",
                      trace |-> t \o (IF lbOk THEN <<"lbAddBind">> ELSE <<"lbAddBindErr">>)])
        /\ fresh' = FreshAfterStage(id, r, "add", ipAddr)
        /\ UNCHANGED <<focus, config, backups, mutex, threads>>

\* HAProxyManagerServer.DeleteBind / DeleteBindWithNetplan, with a frontend
\* name and a bind name.  bindAddress: the address client.GetBind returned,
\* "" when it returned none; lbOk: client.DeleteBind succeeds
DeleteBindRPC(id, bindAddress, saveOk, lbOk) ==
    IF id = "" THEN Rejected("bind", "DeleteBind")
    ELSE
    \E r \in {IF lbOk /\ bindAddress # <<>>
               THEN RemoveIPAddressFromTransaction(World, id, bindAddress, saveOk)
               ELSE [w |-> World, err |-> "notInvoked"]} :
    LET t == IF r.err = "notInvoked" THEN <<>>
             ELSE IF r.err = "none" THEN <<"stage">> ELSE <<"stageErr">>
    IN  /\ WithinBounds(r.w)
        /\ SetWorld(r.w)
        /\ last' = Record("bind",
                     [op |-> "DeleteBind", id |-> id, rpcErr |-> ~lbOk, stage |-> r.err,
                      commit |-> "notInvoked",
                      trace |-> (IF lbOk THEN <<"lbDeleteBind">>
                                 ELSE <<"lbDeleteBindErr">>) \o t])
        /\ fresh' = FreshAfterStage(id, r, "remove", bindAddress)
        /\ UNCHANGED <<focus, config, backups, mutex, threads>>

\* CommitTransactionWithNetplan gone wrong: the coordinator commits although
\* the load balancer's commit failed
CommitTransactionRPCRegardless(id, lbOk, fault, markOk, apply2Ok) ==
    IF id = "" THEN Rejected("rpc", "CommitTransaction")
    ELSE
    \E r \in {CommitTransaction(World, id, fault, markOk)} :
    LET t == IF r.err # "none" \/ ~lbOk THEN <<>>
             ELSE IF apply2Ok THEN <<"serviceActivate">> ELSE <<"serviceActivateErr">>
    IN  /\ SetWorld(r.w)
        /\ last' = Record("rpc",
                     [op |-> "CommitTransaction", id |-> id, rpcErr |-> ~lbOk,
                      stage |-> "notInvoked", commit |-> r.err,
                      trace |-> (IF lbOk THEN <<"lbCommit">> ELSE <<"lbCommitErr">>)
                                    \o r.trace \o t])
        /\ fresh' = FreshAfterCommit(id, r.w.journal)
        /\ UNCHANGED <<focus, config, backups, mutex, threads>>

\* CommitTransactionWithNetplan gone wrong: an error of the coordinator's
\* commit is returned to the caller
CommitTransactionRPCStrict(id, lbOk, fault, markOk, apply2Ok) ==
    IF id = "" THEN Rejected("rpc", "CommitTransaction")
    ELSE IF ~lbOk
    THEN /\ last' = Record("rpc",
                      [op |-> "CommitTransaction", id |-> id, rpcErr |-> TRUE,
                       stage |-> "notInvoked", commit |-> "notInvoked",
                       trace |-> <<"lbCommitErr">>])
         /\ UNCHANGED <<journal, committed, netplanFile, addresses, fresh, focus, config, backups,
                      mutex, threads>>
    ELSE
    \E r \in {CommitTransaction(World, id, fault, markOk)} :
    LET t == IF r.err # "none" THEN <<>>
             ELSE IF apply2Ok THEN <<"serviceActivate">> ELSE <<"serviceActivateErr">>
    IN  /\ SetWorld(r.w)
        /\ last' = Record("rpc",
                     [op |-> "CommitTransaction", id |-> id, rpcErr |-> r.err # "none",
                      stage |-> "notInvoked", commit |-> r.err,
                      trace |-> <<"lbCommit">> \o r.trace \o t])
        /\ fresh' = FreshAfterCommit(id, r.w.journal)
        /\ UNCHANGED <<focus, config, backups, mutex, threads>>

\* CommitTransactionWithNetplan gone wrong: an error of the ApplyNetplan
\* that follows the coordinator's commit is returned to the caller
CommitTransactionRPCFailingOnApply(id, lbOk, fault, markOk, apply2Ok) ==
    IF id = "" THEN Rejected("rpc", "CommitTransaction")
    ELSE IF ~lbOk
    THEN /\ last' = Record("rpc",
                      [op |-> "CommitTransaction", id |-> id, rpcErr |-> TRUE,
                       stage |-> "notInvoked", commit |-> "notInvoked",
                       trace |-> <<"lbCommitErr">>])
         /\ UNCHANGED <<journal, committed, netplanFile, addresses, fresh, focus, config, backups,
                      mutex, threads>>
    ELSE
    \E r \in {CommitTransaction(World, id, fault, markOk)} :
    LET t == IF r.err # "none" THEN <<>>
             ELSE IF apply2Ok THEN <<"serviceActivate">> ELSE <<"serviceActivateErr">>
    IN  /\ SetWorld(r.w)
        /\ last' = Record("rpc",
                     [op |-> "CommitTransaction", id |-> id,
                      rpcErr |-> (r.err = "none" /\ ~apply2Ok),
                      stage |-> "notInvoked", commit |-> r.err,
                      trace |-> <<"lbCommit">> \o r.trace \o t])
        /\ fresh' = FreshAfterCommit(id, r.w.journal)
        /\ UNCHANGED <<focus, config, backups, mutex, threads>>

\* HAProxyManagerServer.CommitTransaction / CommitTransactionWithNetplan.
\* lbOk: client.CommitTransaction succeeds; apply2Ok: the ApplyNetplan that
\* the service runs after a successful coordinator commit succeeds
CommitTransactionRPC(id, lbOk, fault, markOk, apply2Ok) ==
    IF id = "" THEN Rejected("rpc", "CommitTransaction")
    ELSE IF ~lbOk
    THEN /\ last' = Record("rpc",
                      [op |-> "CommitTransaction", id |-> id, rpcErr |-> TRUE,
                       stage |-> "notInvoked", commit |-> "notInvoked",
                       trace |-> <<"lbCommitErr">>])
         /\ UNCHANGED <<journal, committed, netplanFile, addresses, fresh, focus, config, backups,
                      mutex, threads>>
    ELSE
    \E r \in {CommitTransaction(World, id, fault, markOk)} :
    LET t == IF r.err # "none" THEN <<>>
             ELSE IF apply2Ok THEN <<"serviceActivate">> ELSE <<"serviceActivateErr">>
    IN  /\ SetWorld(r.w)
        /\ last' = Record("rpc",
                     [op |-> "CommitTransaction", id |-> id, rpcErr |-> FALSE,
                      stage |-> "notInvoked", commit |-> r.err,
                      trace |-> <<"lbCommit">> \o r.trace \o t])
        /\ fresh' = FreshAfterCommit(id, r.w.journal)
        /\ UNCHANGED <<focus, config, backups, mutex, threads>>

\* faults of commit where committing is the context
ContextFaults == {"none", "activate"}

\* the outcomes of the external steps of one commit: the first step that
\* fails, and whether the write of markTransactionFailed succeeds where the
\* commit can come to call it
CommitOutcomes ==
    {o \in CommitFaults \X BOOLEAN : o[2] \/ o[1] \in {"none", "saveDoc", "activate"}}

\* the coordinator with every outcome of commit; staging succeeds
Next ==
    \/ \E id \in TxIds, ip \in ContextIPs, port \in Ports :
           StageAdd(id, ip, port, TRUE)
    \/ \E id \in TxIds, ip \in ContextIPs :
           StageRemove(id, ip, TRUE)
    \/ \E id \in TxIds, o \in CommitOutcomes :
           Commit(id, o[1], o[2])

Init == InitManager /\ focus = "commit"

Spec == Init /\ [][Next]_vars

\* the coordinator with every outcome of staging; commit succeeds or fails
\* at activation
NextStage ==
    \/ \E id \in TxIds, ip \in IPInputs, port \in Ports, saveOk \in BOOLEAN :
           StageAdd(id, ip, port, saveOk)
    \/ \E id \in TxIds, ip \in IPInputs, saveOk \in BOOLEAN :
           StageRemove(id, ip, saveOk)
    \/ \E id \in TxIds, fault \in ContextFaults :
           Commit(id, fault, TRUE)

InitStage == InitManager /\ journal = EmptyMap /\ focus = "stage"

SpecStage == InitStage /\ [][NextStage]_vars

\* a journal file for t2 that this program did not write: its one change
\* carries an operation applyChange does not know
ForeignChange ==
    [Status  |-> "pending",
     Changes |-> << [Operation |-> "update", IPAddress |-> IP_B, Interface |-> Eth0,
                     Port |-> 80, SubnetMask |-> <<"/", "8">>] >>]

\* addresses staged where a commit that fails is what a run follows
FaultIPs == {IP_A, IP_B}

\* the coordinator over a journal directory that holds a file it did not
\* write, with every outcome of commit; staging succeeds
NextFault ==
    \/ \E id \in TxIds, ip \in FaultIPs, port \in Ports :
           StageAdd(id, ip, port, TRUE)
    \/ \E id \in TxIds, ip \in FaultIPs :
           StageRemove(id, ip, TRUE)
    \/ \E id \in TxIds, o \in CommitOutcomes :
           Commit(id, o[1], o[2])

\* NewManagerWithConfig over such a journal directory
InitFault ==
    /\ journal \in {MapPut(EmptyMap, "t2", ForeignChange),
                    MapPut(EmptyMap, "t2", ForeignEntry)}
    /\ committed = EmptyMap
    /\ netplanFile = NoFile
    /\ addresses = EmptyMap
    /\ last = NoCall
    /\ fresh = [id \in TxIds |-> [tracking |-> id \notin DOMAIN journal, calls |-> <<>>]]
    /\ mutex = ""
    /\ threads = [t \in Threads |-> NoThread]
    /\ config = RunningConfig
    /\ backups = EmptyMap
    /\ focus = "commit"

SpecFault == InitFault /\ [][NextFault]_vars

\* bind addresses where the bind RPCs are the context
BindIPs == {IP_A}

\* the service with every outcome of the CommitTransaction RPC; the bind RPCs
\* stage an address of a configured subnet
NextRPC ==
    \/ \E id \in TxIds, ip \in BindIPs, port \in Ports, lbOk \in BOOLEAN :
           CreateBindRPC(id, ip, port, TRUE, lbOk)
    \/ \E id \in TxIds, ip \in BindIPs, lbOk \in BOOLEAN :
           DeleteBindRPC(id, ip, TRUE, lbOk)
    \/ \E id \in TxIds \cup {""} :
           CommitTransactionRPC(id, FALSE, "none", TRUE, TRUE)
    \/ \E id \in TxIds, o \in CommitOutcomes :
           CommitTransactionRPC(id, TRUE, o[1], o[2], TRUE)
    \/ \E id \in TxIds :
           CommitTransactionRPC(id, TRUE, "none", TRUE, FALSE)

InitRPC == InitManager /\ focus = "rpc"

SpecRPC == InitRPC /\ [][NextRPC]_vars

-----------------------------------------------------------------------------
(* Calls that run side by side.                                            *)
(*                                                                         *)
(* Each goroutine runs one call of the Manager at a time.  A step is one   *)
(* stretch of the call's code between two points where another goroutine   *)
(* can observe or change what it works on: taking the mutex, the load and  *)
(* the save of addChangeToTransaction, every write and every read of the   *)
(* addresses map, and the deferred Unlock.  last describes calls that run  *)
(* alone and stays as it is here; threads holds what each call returned.   *)

\* the change AddIPAddressToTransaction and RemoveIPAddressFromTransaction
\* hand to addChangeToTransaction, <<>> when they return before it
ChangeToStage(operation, ipAddr, port) ==
    LET none == [journal |-> EmptyMap, committed |-> EmptyMap,
                 netplanFile |-> NoFile, addresses |-> EmptyMap]
        r    == IF operation = "add"
                THEN AddIPAddressToTransaction(none, "t", ipAddr, port, TRUE)
                ELSE RemoveIPAddressFromTransaction(none, "t", ipAddr, TRUE)
    IN  IF r.err = "none" THEN r.w.journal["t"].Changes[1] ELSE <<>>

\* no goroutine has brought the process down
Running == \A t \in Threads : threads[t].pc # "fatal"

\* a goroutine enters AddIPAddressToTransaction or
\* RemoveIPAddressFromTransaction and comes to addChangeToTransaction
BeginStage(t, operation, id, ipAddr, port) ==
    /\ Running
    /\ threads[t].pc = "idle"
    /\ \E change \in {ChangeToStage(operation, ipAddr, port)} :
           /\ change # <<>>
           /\ threads' = [threads EXCEPT ![t] =
                  [NoThread EXCEPT !.pc = "lock", !.op = "stage", !.id = id,
                                   !.change = change]]
    /\ UNCHANGED <<journal, committed, netplanFile, addresses, last, fresh,
                   focus, config, backups, mutex>>

\* a goroutine enters CommitTransaction
BeginCommit(t, id, fault) ==
    /\ Running
    /\ threads[t].pc = "idle"
    /\ threads' = [threads EXCEPT ![t] =
           [NoThread EXCEPT !.pc = "lock", !.op = "commit", !.id = id,
                            !.fault = fault]]
    /\ UNCHANGED <<journal, committed, netplanFile, addresses, last, fresh,
                   focus, config, backups, mutex>>

\* Lock gone wrong: the goroutine goes on without the mutex
LockNothing(t) ==
    /\ Running
    /\ threads[t].pc = "lock"
    /\ threads' = [threads EXCEPT ![t].pc =
           IF threads[t].op = "commit" THEN "persist" ELSE "load"]
    /\ UNCHANGED <<journal, committed, netplanFile, addresses, last, fresh,
                   focus, config, backups, mutex>>

\* m.mutex.Lock() of addChangeToTransaction and of CommitTransaction
Lock(t) ==
    /\ Running
    /\ threads[t].pc = "lock"
    /\ mutex = ""
    /\ mutex' = t
    /\ threads' = [threads EXCEPT ![t].pc =
           IF threads[t].op = "commit" THEN "persist" ELSE "load"]
    /\ UNCHANGED <<journal, committed, netplanFile, addresses, last, fresh, focus, config, backups>>

\* addChangeToTransaction gone wrong: the mutex is given up after the load,
\* before the append and the save
StageLoadThenUnlock(t) ==
    \E l \in {loadTransaction(journal, threads[t].id)} :
    LET transaction == IF l.err = "none" THEN l.transaction
                       ELSE [Status |-> "pending", Changes |-> <<>>]
    IN  /\ Running
        /\ threads[t].pc = "load"
        /\ mutex' = ""
        /\ threads' = [threads EXCEPT ![t] =
               IF transaction.Status # "pending"
               THEN [@ EXCEPT !.pc = "unlock", !.err = "notPending"]
               ELSE [@ EXCEPT !.pc = "save", !.transaction = transaction]]
        /\ UNCHANGED <<journal, committed, netplanFile, addresses, last, fresh,
                       focus, config, backups>>

\* addChangeToTransaction: loadTransaction, the new transaction when it
\* fails, and the test of the status
StageLoad(t) ==
    \E l \in {loadTransaction(journal, threads[t].id)} :
    LET transaction == IF l.err = "none" THEN l.transaction
                       ELSE [Status |-> "pending", Changes |-> <<>>]
    IN  /\ Running
        /\ threads[t].pc = "load"
        /\ threads' = [threads EXCEPT ![t] =
               IF transaction.Status # "pending"
               THEN [@ EXCEPT !.pc = "unlock", !.err = "notPending"]
               ELSE [@ EXCEPT !.pc = "save", !.transaction = transaction]]
        /\ UNCHANGED <<journal, committed, netplanFile, addresses, last, fresh,
                       focus, config, backups, mutex>>

\* addChangeToTransaction: the append and saveTransaction
StageSave(t) ==
    \E jr \in {saveTransaction(journal, threads[t].id,
                   [threads[t].transaction EXCEPT
                       !.Changes = Append(@, threads[t].change)])} :
        /\ Running
        /\ threads[t].pc = "save"
        /\ WithinBounds([World EXCEPT !.journal = jr])
        /\ journal' = jr
        /\ fresh' = FreshAfterStage(threads[t].id, [err |-> "none"],
                                    threads[t].change.Operation,
                                    threads[t].change.IPAddress)
        /\ threads' = [threads EXCEPT ![t].pc = "unlock"]
        /\ UNCHANGED <<committed, netplanFile, addresses, last, focus, config, backups, mutex>>

\* CommitTransaction up to the loop that updates the tracking state
CommitPersist(t) ==
    \E r \in {CommitTransaction(World, threads[t].id, threads[t].fault, TRUE)} :
        /\ Running
        /\ threads[t].pc = "persist"
        /\ IF r.err # "none"
           THEN /\ SetWorld(r.w)
                /\ fresh' = FreshAfterCommit(threads[t].id, r.w.journal)
                /\ threads' = [threads EXCEPT ![t].pc = "unlock", ![t].err = r.err]
           ELSE /\ netplanFile' = r.w.netplanFile
                /\ threads' = [threads EXCEPT
                       ![t].pc = "track",
                       ![t].transaction = journal[threads[t].id],
                       ![t].todo = journal[threads[t].id].Changes,
                       ![t].before = addresses,
                       ![t].final = [journal |-> r.w.journal,
                                     committed |-> r.w.committed]]
                /\ UNCHANGED <<journal, committed, addresses, fresh>>
        /\ UNCHANGED <<last, focus, config, backups, mutex>>

\* one round of the loop "Update tracking state": one write of m.addresses
CommitTrack(t) ==
    /\ Running
    /\ threads[t].pc = "track"
    /\ threads[t].todo # <<>>
    /\ addresses' = UpdateTracking(addresses, <<Head(threads[t].todo)>>, 1)
    /\ threads' = [threads EXCEPT ![t].todo = Tail(@)]
    /\ UNCHANGED <<journal, committed, netplanFile, last, fresh, focus, config, backups, mutex>>

\* CommitTransaction after the loop, gone wrong: the entry is left in the
\* journal directory as it was, pending
CommitArchiveKeepingEntry(t) ==
    /\ Running
    /\ threads[t].pc = "track"
    /\ threads[t].todo = <<>>
    /\ threads' = [threads EXCEPT ![t].pc = "unlock"]
    /\ UNCHANGED <<journal, committed, fresh, netplanFile, addresses, last, focus,
                   config, backups, mutex>>

\* CommitTransaction after the loop: saveTransaction with the status
\* committed and moveTransactionToCommitted
CommitArchive(t) ==
    /\ Running
    /\ threads[t].pc = "track"
    /\ threads[t].todo = <<>>
    /\ journal' = threads[t].final.journal
    /\ committed' = threads[t].final.committed
    /\ fresh' = FreshAfterCommit(threads[t].id, threads[t].final.journal)
    /\ threads' = [threads EXCEPT ![t].pc = "unlock"]
    /\ UNCHANGED <<netplanFile, addresses, last, focus, config, backups, mutex>>

\* what last says of the call a goroutine returns from: the call, its id and
\* its error, and the goroutines that are in a call of their own meanwhile
Returned(t) ==
    [op |-> "return", call |-> threads[t].op, id |-> threads[t].id,
     thread |-> t, err |-> threads[t].err,
     inflight |-> {u \in Threads \ {t} : threads[u].pc # "idle"}]

\* Unlock gone wrong: the mutex is given up only by a call that returns
\* no error
UnlockOnSuccess(t) ==
    /\ Running
    /\ threads[t].pc = "unlock"
    /\ mutex' = IF mutex = t /\ threads[t].err = "none" THEN "" ELSE mutex
    /\ threads' = [threads EXCEPT ![t] = NoThread]
    /\ last' = IF focus = "calls" THEN Returned(t) ELSE last
    /\ UNCHANGED <<journal, committed, netplanFile, addresses, fresh, focus, config, backups>>

\* the deferred m.mutex.Unlock() and the return of the call
Unlock(t) ==
    /\ Running
    /\ threads[t].pc = "unlock"
    /\ mutex' = IF mutex = t THEN "" ELSE mutex
    /\ threads' = [threads EXCEPT ![t] = NoThread]
    /\ last' = IF focus = "calls" THEN Returned(t) ELSE last
    /\ UNCHANGED <<journal, committed, netplanFile, addresses, fresh, focus, config, backups>>

\* a goroutine enters GetTrackedAddresses: it takes no lock
BeginRead(t) ==
    /\ Running
    /\ threads[t].pc = "idle"
    /\ threads' = [threads EXCEPT ![t] =
           [NoThread EXCEPT !.pc = "read", !.op = "GetTrackedAddresses"]]
    /\ UNCHANGED <<journal, committed, netplanFile, addresses, last, fresh,
                   focus, config, backups, mutex>>

\* one round of "for ip, iface := range m.addresses": an entry the loop has
\* not yet come by is copied
ReadEntry(t) ==
    /\ Running
    /\ threads[t].pc = "read"
    /\ \E ip \in DOMAIN addresses \ threads[t].seen :
           threads' = [threads EXCEPT
               ![t].result = MapPut(@, ip, addresses[ip]),
               ![t].seen = @ \cup {ip}]
    /\ UNCHANGED <<journal, committed, netplanFile, addresses, last, fresh,
                   focus, config, backups, mutex>>

\* the loop has come by every entry of the map: GetTrackedAddresses returns
ReadReturn(t) ==
    /\ Running
    /\ threads[t].pc = "read"
    /\ DOMAIN addresses \subseteq threads[t].seen
    /\ threads' = [threads EXCEPT ![t] = NoThread]
    /\ UNCHANGED <<journal, committed, netplanFile, addresses, last, fresh,
                   focus, config, backups, mutex>>

\* the range over m.addresses runs while another goroutine writes the map:
\* the runtime may end the process ("concurrent map iteration and map write")
ReadFatal(t) ==
    /\ Running
    /\ threads[t].pc = "read"
    /\ \E q \in Threads : threads[q].pc = "track" /\ threads[q].todo # <<>>
    /\ threads' = [threads EXCEPT ![t].pc = "fatal"]
    /\ UNCHANGED <<journal, committed, netplanFile, addresses, last, fresh,
                   focus, config, backups, mutex>>

\* addresses staged where the interleaving of calls is the context
ThreadIPs == {IP_A}

\* the coordinator serving calls on two goroutines; no step of a commit fails
NextThreads ==
    \/ \E t \in Threads, id \in TxIds, ip \in ThreadIPs, port \in Ports :
           BeginStage(t, "add", id, ip, port)
    \/ \E t \in Threads, id \in TxIds, ip \in ThreadIPs :
           BeginStage(t, "remove", id, ip, 0)
    \/ \E t \in Threads, id \in TxIds :
           BeginCommit(t, id, "none")
    \/ \E t \in Threads : Lock(t)
    \/ \E t \in Threads : StageLoad(t)
    \/ \E t \in Threads : StageSave(t)
    \/ \E t \in Threads : CommitPersist(t)
    \/ \E t \in Threads : CommitTrack(t)
    \/ \E t \in Threads : CommitArchive(t)
    \/ \E t \in Threads : Unlock(t)
    \/ \E t \in Threads : BeginRead(t)
    \/ \E t \in Threads : ReadEntry(t)
    \/ \E t \in Threads : ReadReturn(t)
    \/ \E t \in Threads : ReadFatal(t)

InitThreads == InitManager /\ journal = EmptyMap /\ focus = "stage"

SpecThreads == InitThreads /\ [][NextThreads]_vars

-----------------------------------------------------------------------------
(* The change list of a transaction as a function on documents: what a     *)
(* commit does to the document, tried on every list and every document,    *)
(* again and again as a retried commit would.                              *)

\* times the change list is applied in one run
MaxApplications == 2

\* the operations and addresses of the changes a transaction can hold
ChangeKinds == {"add", "remove"} \X ContextIPs

\* CommitTransaction from loadNetplanConfig to saveNetplanConfig, with no
\* failure: the document it leaves on disk
PersistChanges(file, changes) ==
    saveNetplanConfig(ApplyChanges(loadNetplanConfig(file), changes, 1).cfg)

\* a document as saveNetplanConfig writes it, with the addresses under eth0
DocumentListing(addrs) ==
    saveNetplanConfig(
        [Version   |-> 2,
         Ethernets |-> IF addrs = <<>> THEN EmptyMap
                       ELSE MapPut(EmptyMap, Eth0, [ZeroInterface EXCEPT !.Addresses = addrs]),
         Vlans     |-> EmptyMap])

\* the documents commits of such changes leave on disk, and no document
StartDocuments ==
    {NoFile} \cup {DocumentListing(addrs) :
                      addrs \in {<<>>, <<IP_A \o <<"/", "8">> >>, <<IP_B \o <<"/", "8">> >>,
                                 <<IP_A \o <<"/", "8">>, IP_B \o <<"/", "8">> >>}}

\* the change list of the entry of t1 is applied to the document on disk
ApplyTransaction ==
    /\ Len(last.trace) < MaxApplications
    /\ netplanFile' = PersistChanges(netplanFile, journal["t1"].Changes)
    /\ last' = [last EXCEPT !.op = "apply", !.id = "t1", !.trace = Append(@, "apply")]
    /\ UNCHANGED <<journal, committed, addresses, fresh, focus, config, backups, mutex, threads>>

NextApply == ApplyTransaction

InitApply ==
    /\ \E n \in 0..MaxChanges : \E kinds \in [1..n -> ChangeKinds] :
           journal = MapPut(EmptyMap, "t1", [Status |-> "pending",
                        Changes |-> [k \in 1..n |->
                            ChangeToStage(kinds[k][1], kinds[k][2], 80)]])
    /\ netplanFile \in StartDocuments
    /\ committed = EmptyMap
    /\ addresses = EmptyMap
    /\ last = NoCall
    /\ fresh = [id \in TxIds |-> [tracking |-> FALSE, calls |-> <<>>]]
    /\ mutex = ""
    /\ threads = [t \in Threads |-> NoThread]
    /\ config = RunningConfig
    /\ backups = EmptyMap
    /\ focus = "apply"

SpecApply == InitApply /\ [][NextApply]_vars

-----------------------------------------------------------------------------
(* Properties of the coordinator's commit (under Spec).                    *)

StageOps == {"stageAdd", "stageRemove"}

\* the events of trace that are e
Count(trace, e) == Cardinality({k \in 1..Len(trace) : trace[k] = e})

Has(trace, e) == \E k \in 1..Len(trace) : trace[k] = e

\* the configuration with every change of the list applied, whatever
\* applyChange says of each
RECURSIVE WithEveryChange(_, _, _)
WithEveryChange(netplanConfig, changes, i) ==
    IF i > Len(changes) THEN netplanConfig
    ELSE WithEveryChange(applyChange(netplanConfig, changes[i]).cfg, changes, i + 1)

\* C1: all or nothing.  A step changes the document on disk only if it is a
\* commit of a journal entry all of whose changes applied, and the document
\* it leaves is the loaded one with every change of the entry applied; no
\* step leaves a document with only some of an entry's changes.
C1_AllOrNothing ==
    [][ netplanFile' # netplanFile =>
          /\ last'.op = "commit"
          /\ last'.id \in DOMAIN journal
          /\ LET changes == journal[last'.id].Changes
             IN  /\ Count(last'.trace, "apply") = Len(changes)
                 /\ ~Has(last'.trace, "applyErr")
                 /\ netplanFile' = saveNetplanConfig(
                        WithEveryChange(loadNetplanConfig(netplanFile), changes, 1))
      ]_vars

\* a commit stopped at its second change, after the first applied in memory,
\* and no document was ever written
C1_Witness ==
    /\ last.op = "commit"
    /\ last.commit = "apply"
    /\ Count(last.trace, "apply") >= 1
    /\ ~netplanFile.Exists

\* the pairs of steps that may follow one another in one commit
CommitOrder ==
    {<<"loadTx", "notPending">>, <<"loadTx", "loadDoc">>, <<"loadTx", "loadDocErr">>,
     <<"loadDoc", "apply">>, <<"loadDoc", "applyErr">>,
     <<"apply", "apply">>, <<"apply", "applyErr">>,
     <<"apply", "saveDoc">>, <<"apply", "saveDocErr">>,
     <<"saveDoc", "activate">>, <<"saveDoc", "activateErr">>,
     <<"activate", "track">>,
     <<"track", "saveTx">>, <<"track", "saveTxErr">>,
     <<"saveTx", "archive">>, <<"saveTx", "archiveErr">>,
     <<"applyErr", "markFailed">>, <<"saveDocErr", "markFailed">>,
     <<"activateErr", "markFailed">>}

\* some entry is newly archived or newly carries the status committed
NewlyCommitted ==
    \/ committed' # committed
    \/ \E id \in DOMAIN journal' :
          /\ journal'[id].Status = "committed"
          /\ (id \notin DOMAIN journal \/ journal[id].Status # "committed")

\* C4: the steps of one commit come in the order load entry, apply every
\* change, persist the document, activate, track, archive: activation comes
\* only right after the document with every change was persisted, and an
\* entry gets the status committed or moves to the committed directory only
\* in a commit that persisted the document and whose activation succeeded.
C4_CommitOrder ==
    [][ /\ last'.op = "commit" =>
              LET t == last'.trace
              IN  /\ t[1] \in {"loadTx", "loadTxErr"}
                  /\ \A k \in 1..(Len(t) - 1) : <<t[k], t[k + 1]>> \in CommitOrder
                  /\ (Has(t, "saveDoc") \/ Has(t, "saveDocErr")) =>
                         Count(t, "apply") = Len(journal[last'.id].Changes)
                  /\ netplanFile' # netplanFile => Has(t, "saveDoc")
        /\ NewlyCommitted =>
              /\ last'.op = "commit"
              /\ Has(last'.trace, "saveDoc")
              /\ Has(last'.trace, "activate")
              /\ Has(last'.trace, "track")
      ]_vars

\* a commit of two changes that went through every step
C4_Witness ==
    /\ last.op = "commit"
    /\ last.trace = <<"loadTx", "loadDoc", "apply", "apply", "saveDoc", "activate",
                      "track", "saveTx", "archive">>
    /\ last.id \in DOMAIN committed

\* the index of the last change of the list for ip
LastChangeFor(changes, ip) ==
    CHOOSE k \in 1..Len(changes) :
        /\ changes[k].IPAddress = ip
        /\ \A j \in (k + 1)..Len(changes) : changes[j].IPAddress # ip

\* the address list of the document on disk under an interface name
ListedUnder(file, interfaceName) ==
    LET p   == parseInterfaceName(interfaceName)
        cfg == loadNetplanConfig(file)
    IN  IF p.isVLAN
        THEN MapGet(cfg.Vlans, p.vlanName, ZeroVLAN).Addresses
        ELSE MapGet(cfg.Ethernets, interfaceName, ZeroInterface).Addresses

\* the IP addresses (the part before the mask) of an address list
IPsOf(addrs) == {Split(addrs[k], "/")[1] : k \in 1..Len(addrs)}

\* the IP addresses the document on disk lists
ListedIPs(file) ==
    LET cfg == loadNetplanConfig(file)
    IN  UNION ({IPsOf(cfg.Ethernets[n].Addresses) : n \in DOMAIN cfg.Ethernets}
               \cup {IPsOf(cfg.Vlans[n].Addresses) : n \in DOMAIN cfg.Vlans})

\* the entry was archived as committed
C5_Archived(id) ==
    /\ id \notin DOMAIN journal'
    /\ id \in DOMAIN committed'
    /\ committed'[id].Status = "committed"

\* the tracked map follows the last change of every IP of the list
C5_Tracked(changes) ==
    \A k \in 1..Len(changes) :
        LET c == changes[LastChangeFor(changes, changes[k].IPAddress)]
        IN  /\ c.Operation = "add" =>
                 /\ c.IPAddress \in DOMAIN addresses'
                 /\ addresses'[c.IPAddress] = c.Interface
            /\ c.Operation = "remove" => c.IPAddress \notin DOMAIN addresses'

\* C5: after a commit that returns success the journal file of the id is in
\* the committed directory with status committed; the tracked map follows
\* the last change of each IP; and when the changes are adds of distinct IPs
\* none of which the document listed before, the saved document lists
\* ip+mask under the interface of every change.
C5_CommitPostState ==
    [][ last'.op = "commit" /\ last'.commit = "none" =>
          LET changes == journal[last'.id].Changes
          IN  /\ C5_Archived(last'.id)
              /\ C5_Tracked(changes)
              /\ ( /\ \A k \in 1..Len(changes) :
                         /\ changes[k].Operation = "add"
                         /\ changes[k].IPAddress \notin ListedIPs(netplanFile)
                   /\ \A j, k \in 1..Len(changes) :
                         j # k => changes[j].IPAddress # changes[k].IPAddress )
                 => \A k \in 1..Len(changes) :
                       \E n \in 1..Len(ListedUnder(netplanFile', changes[k].Interface)) :
                           ListedUnder(netplanFile', changes[k].Interface)[n]
                               = changes[k].IPAddress \o changes[k].SubnetMask
      ]_vars

\* C9: a commit of an id that has no journal entry, or whose entry is not
\* pending, fails and changes nothing: not the document, not the tracked
\* map, not a file of the journal or committed directory, and no activation.
C9_CommitRejected ==
    [][ /\ last'.op = "commit"
        /\ \/ last'.id \notin DOMAIN journal
           \/ journal[last'.id].Status # "pending"
        => /\ last'.commit \in {"missing", "notPending"}
           /\ last'.commit = "missing" <=> last'.id \notin DOMAIN journal
           /\ UNCHANGED <<journal, committed, netplanFile, addresses>>
           /\ \A k \in 1..Len(last'.trace) :
                 last'.trace[k] \in {"loadTx", "loadTxErr", "notPending"}
      ]_vars

\* a commit was refused for an entry that an earlier commit had marked
\* failed, and the entry is still there as it was
C9_Witness ==
    /\ last.op = "commit"
    /\ last.commit = "notPending"
    /\ last.id \in DOMAIN journal
    /\ journal[last.id].Status = "failed"

\* the status the transaction files give an id: that of its journal file,
\* else that of its archived file
StatusOf(jr, arch, id) ==
    IF id \in DOMAIN jr THEN jr[id].Status
    ELSE IF id \in DOMAIN arch THEN arch[id].Status
    ELSE "none"

\* C10: once the entry of an id is committed or failed its status stays:
\* no stageAdd, stageRemove or commit makes it pending or changes it again.
C10_StatusOneWay ==
    [][ \A id \in TxIds :
          StatusOf(journal, committed, id) \in {"committed", "failed"} =>
              StatusOf(journal', committed', id) = StatusOf(journal, committed, id)
      ]_vars

-----------------------------------------------------------------------------
(* Properties of staging (under SpecStage).                                *)

\* the journal file of every id but one is as it was
OthersUntouched(id) ==
    \A other \in (DOMAIN journal \cup DOMAIN journal') \ {id} :
        /\ other \in DOMAIN journal
        /\ other \in DOMAIN journal'
        /\ journal'[other] = journal[other]

\* C6: stageAdd and stageRemove, whether they succeed or fail, leave the
\* document on disk and the tracked map as they were and activate nothing;
\* of the transaction files they change at most the journal file of the id
\* they were given.
C6_StageFrame ==
    [][ last'.op \in StageOps =>
          /\ netplanFile' = netplanFile
          /\ addresses' = addresses
          /\ committed' = committed
          /\ OthersUntouched(last'.id)
          /\ last'.trace \in {<<"stage">>, <<"stageErr">>}
      ]_vars

\* a stageAdd went through while a document was on disk, an address was
\* tracked and a transaction was archived
C6_Witness ==
    /\ last.op = "stageAdd"
    /\ last.stage = "none"
    /\ last.id \in DOMAIN journal
    /\ netplanFile.Exists
    /\ addresses # EmptyMap
    /\ committed # EmptyMap

\* C7: after n stageAdd/stageRemove calls that succeeded on an id that had
\* no journal entry, the entry is pending and its change list is the n
\* staged changes in the order of the calls.
C7_StagedInOrder ==
    \A id \in TxIds :
        fresh[id].tracking /\ Len(fresh[id].calls) > 0 =>
            /\ id \in DOMAIN journal
            /\ journal[id].Status = "pending"
            /\ Len(journal[id].Changes) = Len(fresh[id].calls)
            /\ \A k \in 1..Len(fresh[id].calls) :
                  /\ journal[id].Changes[k].Operation = fresh[id].calls[k].op
                  /\ journal[id].Changes[k].IPAddress = fresh[id].calls[k].ip
                  /\ journal[id].Changes[k].Interface
                         = InterfaceOf[fresh[id].calls[k].ip].iface

\* two different calls succeeded on an id that had no entry
C7_Witness ==
    \E id \in TxIds :
        /\ fresh[id].tracking
        /\ Len(fresh[id].calls) = 2
        /\ fresh[id].calls[1] # fresh[id].calls[2]

\* C8: a stageAdd or stageRemove that fails on validation (empty or
\* malformed IP) or because the entry of the id is not pending changes
\* nothing: no journal file appears and every entry keeps its status and
\* its change list.
C8_StageErrorNoEffect ==
    [][ last'.op \in StageOps /\ last'.stage \in {"validation", "notPending"} =>
          UNCHANGED <<journal, committed, netplanFile, addresses>>
      ]_vars

\* a stage call was refused because the entry of its id had failed, and the
\* entry still holds what was staged before
C8_Witness ==
    /\ last.op \in StageOps
    /\ last.stage = "notPending"
    /\ last.id \in DOMAIN journal
    /\ journal[last.id].Status = "failed"
    /\ Len(journal[last.id].Changes) = 1

-----------------------------------------------------------------------------
(* Properties of the CommitTransaction RPC (under SpecRPC).                *)

\* what the coordinator's commit and the activation after it leave in a trace
CoordinatorEvents ==
    {"loadTxErr", "loadTx", "notPending", "loadDocErr", "loadDoc", "apply",
     "applyErr", "markFailed", "saveDocErr", "saveDoc", "activateErr", "activate",
     "track", "saveTxErr", "saveTx", "archiveErr", "archive",
     "serviceActivate", "serviceActivateErr"}

\* C2: in the CommitTransaction RPC the coordinator's commit runs only after
\* the load balancer's commit of the id returned success; when that commit
\* fails the coordinator's commit is not called and the journal, the
\* document and the tracked map stay as they were.
C2_LoadBalancerFirst ==
    [][ last'.op = "CommitTransaction" /\ last'.id # "" =>
          LET t == last'.trace
          IN  /\ t[1] \in {"lbCommit", "lbCommitErr"}
              /\ \A k \in 2..Len(t) : t[k] \in CoordinatorEvents
              /\ last'.commit # "notInvoked" => t[1] = "lbCommit" /\ Len(t) > 1
              /\ t[1] = "lbCommitErr" =>
                    /\ t = <<"lbCommitErr">>
                    /\ last'.commit = "notInvoked"
                    /\ UNCHANGED <<journal, committed, netplanFile, addresses>>
      ]_vars

\* the load balancer's commit failed for an id whose journal entry is pending
C2_Witness ==
    /\ last.op = "CommitTransaction"
    /\ last.trace = <<"lbCommitErr">>
    /\ last.id \in DOMAIN journal
    /\ journal[last.id].Status = "pending"

\* C3: when the load balancer's commit succeeded the RPC returns no error,
\* whatever the coordinator's commit returned, and calls the load balancer
\* no more: its commit is not rolled back.
C3_CoordinatorFailureNotFatal ==
    last.op = "CommitTransaction" /\ last.trace # <<>> /\ last.trace[1] = "lbCommit" =>
        /\ ~last.rpcErr
        /\ \A k \in 2..Len(last.trace) : last.trace[k] \in CoordinatorEvents

\* the RPC returned no error although the coordinator's commit failed at
\* activation and marked the entry failed
C3_Witness ==
    /\ last.op = "CommitTransaction"
    /\ last.commit = "activate"
    /\ ~last.rpcErr
    /\ journal[last.id].Status = "failed"

-----------------------------------------------------------------------------
(* Properties of the archive and of commit failures (under Spec).          *)

\* C11: a transaction file that is in the committed directory keeps its
\* content: no later stageAdd, stageRemove, commit or markTransactionFailed,
\* for this or another id, changes or replaces it.
C11_ArchiveImmutable ==
    [][ \A id \in DOMAIN committed :
            id \in DOMAIN committed' /\ committed'[id] = committed[id] ]_vars

-----------------------------------------------------------------------------
(* Properties of calls that run side by side (under SpecThreads).          *)

\* the calls that are between m.mutex.Lock() and the deferred Unlock
Inside == {t \in Threads : threads[t].pc \in {"load", "save", "persist", "track", "unlock"}}

\* C12: no update of the journal is lost: however the staging calls on an id
\* interleave, the changes of all those that returned success since the id
\* had no entry are in its journal entry, each once, in the order in which
\* the calls saved.
C12_NoLostUpdate ==
    \A id \in TxIds :
        fresh[id].tracking /\ id \in DOMAIN journal =>
            /\ Len(journal[id].Changes) = Len(fresh[id].calls)
            /\ \A k \in 1..Len(journal[id].Changes) :
                  [op |-> journal[id].Changes[k].Operation,
                   ip |-> journal[id].Changes[k].IPAddress] = fresh[id].calls[k]

\* two staging calls on one id have saved, the second after it loaded the
\* change of the first, while a third call on the id waits for the mutex
C12_Witness ==
    \E t \in Threads, u \in Threads :
        /\ threads[t].op = "stage" /\ threads[t].pc = "unlock"
        /\ threads[u].op = "stage" /\ threads[u].pc = "lock"
        /\ threads[u].id = threads[t].id
        /\ Len(threads[t].transaction.Changes) = 1
        /\ fresh[threads[t].id].tracking
        /\ Len(fresh[threads[t].id].calls) = 2
        /\ fresh[threads[t].id].calls[1] # fresh[threads[t].id].calls[2]

\* C13: (as the spec has it) staging calls for different ids do not block
\* each other: no staging call waits for a lock that a staging call for
\* another id holds.
C13_NoWaitAcrossIds ==
    ~ \E t \in Threads, u \in Threads :
        /\ threads[t].op = "stage" /\ threads[t].pc = "lock"
        /\ threads[u].op = "stage" /\ mutex = u
        /\ threads[u].id # threads[t].id

\* C13 (amended): every staging call and every commit runs under the one
\* mutex of the Manager, whatever its id: at most one call is between Lock and
\* Unlock, it is the holder of the mutex, and a call at Lock waits for as
\* long as another call, for the same or another id, holds it.
C13_OneMutexForAllIds ==
    /\ Cardinality(Inside) <= 1
    /\ \A t \in Threads : t \in Inside <=> mutex = t
    /\ \A t \in Threads : threads[t].pc = "lock" /\ mutex # "" => ~ ENABLED Lock(t)

\* a staging call for one id waits at Lock while a staging call for another
\* id is between its load and its save
C13_Witness ==
    \E t \in Threads, u \in Threads :
        /\ threads[t].op = "stage" /\ threads[t].pc = "lock"
        /\ threads[u].op = "stage" /\ threads[u].pc = "save"
        /\ mutex = u
        /\ threads[u].id # threads[t].id

\* C14: a read of the tracked-address map never sees a commit half way: a
\* snapshot that GetTrackedAddresses returns while a commit is in its
\* tracking loop is the map as it was before the loop or as it is after it.
C14_SnapshotWhole ==
    [][ \A t \in Threads, q \in Threads :
            /\ threads[t].pc = "read"
            /\ threads'[t].pc = "idle"
            /\ threads[q].pc = "track"
            => threads[t].result \in
                   {threads[q].before,
                    UpdateTracking(threads[q].before,
                                   threads[q].transaction.Changes, 1)}
      ]_vars

-----------------------------------------------------------------------------
(* Properties of staging an address of no configured subnet (under         *)
(* SpecStage).                                                             *)

\* the entry of id takes changes: there is none yet, or it is pending
TakesChanges(id) == id \in DOMAIN journal => journal[id].Status = "pending"

\* the masks of the configured subnets
ConfiguredMasks == {<<"/", "2", "4">>, <<"/", "8">>, <<"/", "1", "6">>}

\* C15: (as the spec has it) stageAdd for a well-formed IP of no configured
\* subnet still goes on: it reports the resolution failure and appends an
\* add-change for the IP with the mask "/32" to the entry of the id.
C15_UnmappedStagedAsHost ==
    [][ \A id \in TxIds :
            TakesChanges(id) /\ StageAdd(id, IP_NOMAP, 80, TRUE) =>
                /\ last'.stage = "resolution"
                /\ id \in DOMAIN journal'
                /\ Len(journal'[id].Changes) > 0
                /\ LET c == journal'[id].Changes[Len(journal'[id].Changes)]
                   IN  /\ c.Operation = "add"
                       /\ c.IPAddress = IP_NOMAP
                       /\ c.SubnetMask = <<"/", "3", "2">>
      ]_vars

\* C15 (amended): stageAdd for a well-formed IP of no configured subnet
\* returns the resolution failure and stages nothing: no journal file is
\* written or changed.  The mask "/32" is never staged: every add-change in
\* the journal carries the mask of the configured subnet of its address.
C15_UnmappedNotStaged ==
    [][ /\ \A id \in TxIds, saveOk \in BOOLEAN :
              StageAdd(id, IP_NOMAP, 80, saveOk) =>
                  /\ last'.stage = "resolution"
                  /\ UNCHANGED <<journal, committed, netplanFile, addresses>>
        /\ \A id \in DOMAIN journal' :
              \A k \in 1..Len(journal'[id].Changes) :
                  journal'[id].Changes[k].Operation = "add" =>
                      /\ journal'[id].Changes[k].IPAddress # IP_NOMAP
                      /\ journal'[id].Changes[k].SubnetMask \in ConfiguredMasks
                      /\ journal'[id].Changes[k].SubnetMask
                             = MaskOf[journal'[id].Changes[k].IPAddress].mask
      ]_vars

\* a stageAdd was refused for its address of no configured subnet, on an id
\* whose pending entry holds an earlier change
C15_Witness ==
    /\ last.op = "stageAdd"
    /\ last.stage = "resolution"
    /\ last.id \in DOMAIN journal
    /\ journal[last.id].Status = "pending"
    /\ Len(journal[last.id].Changes) = 1

-----------------------------------------------------------------------------
(* Properties of a commit that fails (under SpecFault).                    *)

\* the index of the first change of the list whose operation applyChange
\* does not know, Len(changes) + 1 when it knows them all
FirstUnknown(changes) ==
    IF \A k \in 1..Len(changes) : changes[k].Operation \in {"add", "remove"}
    THEN Len(changes) + 1
    ELSE CHOOSE k \in 1..Len(changes) :
             /\ changes[k].Operation \notin {"add", "remove"}
             /\ \A j \in 1..(k - 1) : changes[j].Operation \in {"add", "remove"}

\* the document on disk after every change of the list was applied to it
DocumentWith(changes) ==
    saveNetplanConfig(WithEveryChange(loadNetplanConfig(netplanFile), changes, 1))

\* C16: when the i-th change of a pending entry does not apply, commit
\* returns that error after the changes 1..i-1 and attempts none of i+1..n;
\* it calls markTransactionFailed, which leaves the entry failed when its
\* write goes through; the document on disk, the tracked map and the
\* archive are as before the commit; nothing is persisted or activated.
C16_FirstFailureStops ==
    [][ \A id \in TxIds, o \in CommitOutcomes :
          /\ Commit(id, o[1], o[2])
          /\ id \in DOMAIN journal
          /\ journal[id].Status = "pending"
          /\ o[1] # "loadDoc"
          /\ FirstUnknown(journal[id].Changes) <= Len(journal[id].Changes)
          => LET changes == journal[id].Changes
                 i       == FirstUnknown(changes)
             IN  /\ last'.commit = "apply"
                 /\ last'.trace = <<"loadTx", "loadDoc">>
                                     \o [k \in 1..(i - 1) |-> "apply"]
                                     \o <<"applyErr", "markFailed">>
                 /\ UNCHANGED <<netplanFile, addresses, committed>>
                 /\ DOMAIN journal' = DOMAIN journal
                 /\ journal'[id].Changes = changes
                 /\ journal'[id].Status = IF o[2] THEN "failed" ELSE "pending"
      ]_vars

\* a commit stopped at the first of two changes: the second, an add that
\* would have applied, was not attempted, and the entry is failed
C16_Witness ==
    /\ last.op = "commit"
    /\ last.commit = "apply"
    /\ last.trace = <<"loadTx", "loadDoc", "applyErr", "markFailed">>
    /\ last.id \in DOMAIN journal
    /\ journal[last.id].Status = "failed"
    /\ Len(journal[last.id].Changes) = 2
    /\ journal[last.id].Changes[2].Operation = "add"
    /\ ~netplanFile.Exists

\* C17: a commit of a pending entry that fails on reading the document, on
\* writing it or on activation returns an error and leaves the entry of the
\* id with the status failed (the write of markTransactionFailed going
\* through).
C17_IoFailureMarksFailed ==
    [][ \A id \in TxIds, fault \in {"loadDoc", "saveDoc", "activate"} :
          /\ Commit(id, fault, TRUE)
          /\ last'.commit = fault
          => /\ id \in DOMAIN journal'
             /\ journal'[id].Status = "failed"
      ]_vars

\* C18: when activation fails after the document was persisted, the document
\* on disk is the one with every change of the entry applied, not the one
\* from before the commit, and the entry stays in the journal directory:
\* nothing is moved to the committed directory.
C18_ActivationFailureKeepsDocument ==
    [][ last'.op = "commit" /\ last'.commit = "activate" =>
          /\ last'.id \in DOMAIN journal
          /\ netplanFile'.Exists
          /\ netplanFile' = DocumentWith(journal[last'.id].Changes)
          /\ last'.id \in DOMAIN journal'
          /\ journal'[last'.id].Changes = journal[last'.id].Changes
          /\ committed' = committed
      ]_vars

\* activation failed on the first commit there was: the document now exists
\* and lists the staged address, and the entry is in the journal directory
C18_Witness ==
    /\ last.op = "commit"
    /\ last.commit = "activate"
    /\ IP_A \in ListedIPs(netplanFile)
    /\ last.id \in DOMAIN journal
    /\ committed = EmptyMap

\* C19: when moving the journal file to the committed directory fails, after
\* the document was persisted and activation succeeded, commit returns an
\* error, while the document with every change of the entry stays on disk
\* and the tracked map keeps the updates of the commit.
C19_ArchiveFailureReported ==
    [][ last'.op = "commit" /\ Has(last'.trace, "archiveErr") =>
          /\ last'.commit \notin {"none", "notInvoked"}
          /\ Has(last'.trace, "saveDoc")
          /\ Has(last'.trace, "activate")
          /\ netplanFile' = DocumentWith(journal[last'.id].Changes)
          /\ C5_Tracked(journal[last'.id].Changes)
          /\ last'.id \notin DOMAIN committed' \ DOMAIN committed
      ]_vars

\* the move of an entry failed: its address is tracked and listed in the
\* document, and the entry is still in the journal directory, as committed
C19_Witness ==
    /\ last.op = "commit"
    /\ last.commit = "archive"
    /\ IP_A \in DOMAIN addresses
    /\ IP_A \in ListedIPs(netplanFile)
    /\ last.id \in DOMAIN journal
    /\ journal[last.id].Status = "committed"

-----------------------------------------------------------------------------
(* Properties of the change list as a function on documents (under         *)
(* SpecApply).                                                             *)

\* C20: a retried commit changes nothing in the document: for every change
\* list of adds and removes and every starting document, applying the list
\* to a document it was already applied to leaves that document as it is.
C20_RetryIdempotent ==
    [][ Len(last.trace) >= 1 /\ Len(last'.trace) = Len(last.trace) + 1 =>
            netplanFile' = netplanFile ]_vars

-----------------------------------------------------------------------------
(* One change applied to a document: applyChange on every document of a    *)
(* small family and every add and remove of two addresses on a plain       *)
(* interface and on a VLAN, as a commit of that one change runs it between *)
(* loadNetplanConfig and saveNetplanConfig.                                *)

A8  == IP_A \o <<"/", "8">>
A24 == IP_A \o <<"/", "2", "4">>
B8  == IP_B \o <<"/", "8">>
C16 == IP_C \o <<"/", "1", "6">>

\* the address lists an interface entry of a document on disk may carry
AddressLists == {<<>>, <<A24>>, <<B8>>, <<A24, B8>>, <<C16, B8, A8>>}

\* the address lists a VLAN entry of a document on disk may carry
VLANAddressLists == {<<>>, <<A24>>, <<B8>>}

\* an interface entry as it stands in the YAML document: the key addresses
\* when there are any, and, when other is set, a key the struct does not know
RawInterface(addrs, other) ==
    LET r0 == IF other THEN MapPut(EmptyMap, "wakeonlan", TRUE) ELSE EmptyMap
    IN  IF addrs # <<>> THEN MapPut(r0, "addresses", addrs) ELSE r0

\* a VLAN entry as it stands in the YAML document; link <<>>: no key link
RawVLAN(addrs, link, other) ==
    LET r0 == MapPut(RawInterface(addrs, other), "id", 100)
    IN  IF link # <<>> THEN MapPut(r0, "link", link) ELSE r0

\* the keys under "network" that NetplanNetwork does not know
RootExtras == {EmptyMap, MapPut(EmptyMap, "renderer", "networkd")}

\* the documents found at the configured path, and no document
ChangeDocuments ==
    {NoFile} \cup
    {[Exists |-> TRUE, Version |-> 2, Extra |-> x, Ethernets |-> e, Vlans |-> v] :
        x \in RootExtras,
        e \in {EmptyMap} \cup
              {MapPut(EmptyMap, Eth0, RawInterface(l, o)) :
                  l \in AddressLists, o \in BOOLEAN},
        v \in {EmptyMap} \cup
              {MapPut(EmptyMap, <<"vlan100">>, RawVLAN(l, k, FALSE)) :
                  l \in VLANAddressLists, k \in {<<>>, <<"eth0">>, <<"eth1">>}}
              \cup {MapPut(EmptyMap, <<"vlan100">>, RawVLAN(<<A24>>, <<"eth0">>, TRUE))}}

\* a change as AddIPAddressToTransaction and RemoveIPAddressFromTransaction
\* build it, for an address of a /8 subnet mapped to the interface
OneChange(operation, ipAddr, interfaceName) ==
    [Operation  |-> operation,
     IPAddress  |-> ipAddr,
     Interface  |-> interfaceName,
     Port       |-> IF operation = "add" THEN 80 ELSE 0,
     SubnetMask |-> IF operation = "add" THEN <<"/", "8">> ELSE <<>>]

\* a commit of the one change, with no failure, as far as the document goes:
\* loadNetplanConfig, applyChange, saveNetplanConfig.  last.times counts, up
\* to MaxApplications, how often in a row this same change was applied
ApplyOneChange(operation, ipAddr, interfaceName) ==
    /\ UNCHANGED <<journal, committed, addresses, fresh, focus, config, backups,
                   mutex, threads>>
    /\ \E change \in {OneChange(operation, ipAddr, interfaceName)} :
           /\ netplanFile' = PersistChanges(netplanFile, <<change>>)
           /\ last' = [op |-> "applyChange", id |-> "", rpcErr |-> FALSE,
                       stage |-> "notInvoked", commit |-> "none",
                       trace |-> <<"loadDoc", "apply", "saveDoc">>, change |-> change,
                       times |-> IF last.op # "applyChange" \/ last.change # change THEN 1
                                 ELSE IF last.times < MaxApplications THEN last.times + 1
                                 ELSE last.times]

NextChange ==
    \E operation \in {"add", "remove"}, ip \in ContextIPs, name \in {Eth0, Vlan100} :
        ApplyOneChange(operation, ip, name)

InitChange ==
    /\ netplanFile \in ChangeDocuments
    /\ journal = EmptyMap
    /\ committed = EmptyMap
    /\ addresses = EmptyMap
    /\ last = NoCall
    /\ fresh = [id \in TxIds |-> [tracking |-> FALSE, calls |-> <<>>]]
    /\ mutex = ""
    /\ threads = [t \in Threads |-> NoThread]
    /\ config = RunningConfig
    /\ backups = EmptyMap
    /\ focus = "change"

SpecChange == InitChange /\ [][NextChange]_vars

-----------------------------------------------------------------------------
(* Properties of one change applied to a document (under SpecChange).      *)

\* the entries of an address list that are ip with some mask
EntriesFor(addrs, ip) == {k \in 1..Len(addrs) : Split(addrs[k], "/")[1] = ip}

\* C21: an add for an IP on an interface, plain or VLAN, whose address list
\* already holds an address for that IP, with any mask, leaves the list as
\* it is; so after two adds of the same IP, one after the other, the list
\* holds exactly one entry for it.
C21_AddIdempotent ==
    [][ \A ip \in ContextIPs, name \in {Eth0, Vlan100} :
          ApplyOneChange("add", ip, name) =>
              /\ EntriesFor(ListedUnder(netplanFile, name), ip) # {} =>
                     ListedUnder(netplanFile', name) = ListedUnder(netplanFile, name)
              /\ last'.times >= 2 =>
                     Cardinality(EntriesFor(ListedUnder(netplanFile', name), ip)) = 1
      ]_vars

\* the list without its entries that have ip as a string prefix
RECURSIVE Without(_, _)
Without(addrs, ip) ==
    IF addrs = <<>> THEN <<>>
    ELSE (IF HasPrefix(Head(addrs), ip) THEN <<>> ELSE <<Head(addrs)>>)
             \o Without(Tail(addrs), ip)

\* the keys of the mapping of the document, ethernets or vlans, in which an
\* interface identifier has its entry, and its key there
HeldKeys(file, name) ==
    IF Len(name) = 1 THEN DOMAIN file.Ethernets ELSE DOMAIN file.Vlans

EntryKey(name) == <<name[1]>>

\* C22: a remove for IP x on an interface, plain or VLAN, leaves in its
\* address list exactly the former addresses that do not have x as a string
\* prefix, in their order; when none is left the key of the interface or
\* VLAN is gone from the document.
C22_RemoveFilters ==
    [][ \A ip \in ContextIPs, name \in {Eth0, Vlan100} :
          ApplyOneChange("remove", ip, name) =>
              LET kept == Without(ListedUnder(netplanFile, name), ip)
              IN  /\ ListedUnder(netplanFile', name) = kept
                  /\ kept = <<>> <=> EntryKey(name) \notin HeldKeys(netplanFile', name)
      ]_vars

\* a remove of 10.0.0.10 took the middle one of three addresses of eth0 and
\* left the other two in their order
C22_Witness ==
    /\ last.op = "applyChange"
    /\ last.change = OneChange("remove", IP_B, Eth0)
    /\ ListedUnder(netplanFile, Eth0) = <<C16, A8>>
    /\ Eth0 \in DOMAIN netplanFile.Ethernets

\* the link of the VLAN entry under key in the document, <<>> when the entry
\* is missing or has none
LinkOf(file, key) ==
    IF key \in DOMAIN file.Vlans /\ "link" \in DOMAIN file.Vlans[key]
    THEN file.Vlans[key]["link"]
    ELSE <<>>

\* C23: an add whose interface identifier is label@parent puts the address
\* under the VLAN entry keyed by label, which is created when it is missing,
\* and never under the plain interfaces; the link of the entry becomes
\* parent when it had none, and a link it had is left as it was.
C23_AddToVLAN ==
    [][ \A ip \in ContextIPs :
          ApplyOneChange("add", ip, Vlan100) =>
              /\ <<"vlan100">> \in DOMAIN netplanFile'.Vlans
              /\ EntriesFor(netplanFile'.Vlans[<<"vlan100">>]["addresses"], ip) # {}
              /\ netplanFile'.Ethernets = netplanFile.Ethernets
              /\ LinkOf(netplanFile', <<"vlan100">>) =
                     IF LinkOf(netplanFile, <<"vlan100">>) = <<>> THEN <<"eth0">>
                     ELSE LinkOf(netplanFile, <<"vlan100">>)
      ]_vars

\* the keys of an entry of the document on disk that its struct has no field for
UnknownKeys(entry, known) == DOMAIN entry \ known

\* the entries that are in the mapping before and after keep their unknown keys
KeepsUnknown(before, after, known) ==
    \A n \in DOMAIN before \cap DOMAIN after :
        \A k \in UnknownKeys(before[n], known) :
            k \in DOMAIN after[n] /\ after[n][k] = before[n][k]

\* C24: a load followed by a save, as every commit runs them, keeps every
\* field the schema does not know, wherever it is in the document: under the
\* network root, and in an interface entry or a VLAN entry that the commit
\* leaves in the document.
C24_UnknownFieldsKept ==
    [][ netplanFile.Exists /\ last'.op = "applyChange" =>
          /\ netplanFile'.Extra = netplanFile.Extra
          /\ KeepsUnknown(netplanFile.Ethernets, netplanFile'.Ethernets, KnownInterfaceKeys)
          /\ KeepsUnknown(netplanFile.Vlans, netplanFile'.Vlans, KnownVLANKeys)
      ]_vars

-----------------------------------------------------------------------------
(* Saving the document with backups: the commit of a Manager whose         *)
(* configuration has backup_enabled set.                                   *)

\* time.Now().Format("20060102-150405") at the saves of a run
Stamps == {"20260101-000000", "20260101-000001"}

\* the steps at which createBackup can fail for a reason outside the program
BackupFaults == {"none", "open", "create", "copy"}

\* Manager.createBackup: the backup files it leaves and its error.  A copy
\* that fails leaves a backup file that is not the whole document
createBackup(bk, file, stamp, backupFault) ==
    IF ~file.Exists THEN [backups |-> bk, err |-> "skipped"]
    ELSE CASE backupFault = "open"   -> [backups |-> bk, err |-> "open"]
           [] backupFault = "create" -> [backups |-> bk, err |-> "create"]
           [] backupFault = "copy"   ->
                  [backups |-> MapPut(bk, stamp, [whole |-> FALSE, content |-> NoFile]),
                   err     |-> "copy"]
           [] OTHER ->
                  [backups |-> MapPut(bk, stamp, [whole |-> TRUE, content |-> file]),
                   err     |-> "none"]

\* the trace of a commit with the backup put before the write of the document
RECURSIVE WithBackupEvent(_, _)
WithBackupEvent(trace, backup) ==
    IF trace = <<>> THEN <<>>
    ELSE IF Head(trace) \in {"saveDoc", "saveDocErr"}
    THEN (CASE backup = "none"    -> <<"backup", Head(trace)>>
            [] backup = "skipped" -> <<Head(trace)>>
            [] OTHER              -> <<"backupErr">>) \o Tail(trace)
    ELSE <<Head(trace)>> \o WithBackupEvent(Tail(trace), backup)

\* saveNetplanConfig gone wrong: an error of createBackup is logged and the
\* document is written all the same
CommitIgnoringBackupError(id, fault, markOk, stamp, backupFault) ==
    \E b \in {IF config.BackupEnabled
               THEN createBackup(backups, netplanFile, stamp, backupFault)
               ELSE [backups |-> backups, err |-> "skipped"]} :
    \E r \in {CommitTransaction(World, id, fault, markOk)} :
    LET reached == \E k \in 1..Len(r.trace) : r.trace[k] \in {"saveDoc", "saveDocErr"}
    IN  /\ SetWorld(r.w)
        /\ backups' = IF reached THEN b.backups ELSE backups
        /\ last' = [op |-> "commit", id |-> id, rpcErr |-> FALSE,
                    stage |-> "notInvoked", commit |-> r.err,
                    trace |-> r.trace,
                    backup |-> IF reached THEN b.err ELSE "notReached"]
        /\ fresh' = FreshAfterCommit(id, r.w.journal)
        /\ UNCHANGED <<focus, config, mutex, threads>>

\* a call of Manager.CommitTransaction whose saveNetplanConfig runs
\* createBackup first when backups are enabled.  fault: the first step of the
\* commit itself that fails; backupFault: the step of createBackup that fails
CommitWithBackup(id, fault, markOk, stamp, backupFault) ==
    \E b \in {IF config.BackupEnabled
               THEN createBackup(backups, netplanFile, stamp, backupFault)
               ELSE [backups |-> backups, err |-> "skipped"]} :
    \E r \in {CommitTransaction(World, id,
                  IF fault # "loadDoc" /\ b.err \notin {"none", "skipped"}
                  THEN "saveDoc" ELSE fault,
                  markOk)} :
    LET reached == \E k \in 1..Len(r.trace) : r.trace[k] \in {"saveDoc", "saveDocErr"}
    IN  /\ SetWorld(r.w)
        /\ backups' = IF reached THEN b.backups ELSE backups
        /\ last' = [op |-> "commit", id |-> id, rpcErr |-> FALSE,
                    stage |-> "notInvoked", commit |-> r.err,
                    trace |-> IF reached THEN WithBackupEvent(r.trace, b.err)
                              ELSE r.trace,
                    backup |-> IF reached THEN b.err ELSE "notReached"]
        /\ fresh' = FreshAfterCommit(id, r.w.journal)
        /\ UNCHANGED <<focus, config, mutex, threads>>

\* faults of the commit itself where the backup is what a run follows
BackupContextFaults == {"none", "saveDoc"}

\* the coordinator with backups enabled, with every outcome of createBackup
NextBackup ==
    \/ \E id \in TxIds, port \in Ports :
           StageAdd(id, IP_A, port, TRUE)
    \/ \E id \in TxIds :
           StageRemove(id, IP_A, TRUE)
    \/ \E id \in TxIds, fault \in BackupContextFaults, stamp \in Stamps,
          backupFault \in BackupFaults :
           CommitWithBackup(id, fault, TRUE, stamp, backupFault)

\* NewManagerWithConfig with backup_enabled: true, before any document
InitBackup ==
    /\ journal = EmptyMap
    /\ committed = EmptyMap
    /\ netplanFile = NoFile
    /\ addresses = EmptyMap
    /\ last = NoCall
    /\ fresh = [id \in TxIds |-> [tracking |-> TRUE, calls |-> <<>>]]
    /\ mutex = ""
    /\ threads = [t \in Threads |-> NoThread]
    /\ config = [RunningConfig EXCEPT !.BackupEnabled = TRUE]
    /\ backups = EmptyMap
    /\ focus = "commit"

SpecBackup == InitBackup /\ [][NextBackup]_vars

-----------------------------------------------------------------------------
(* Properties of saving with backups (under SpecBackup).                   *)

\* the first place of an event in a trace, 0 when it is not there
PlaceOf(trace, e) ==
    IF Has(trace, e)
    THEN CHOOSE k \in 1..Len(trace) : trace[k] = e /\ \A j \in 1..(k - 1) : trace[j] # e
    ELSE 0

\* C25: with backups enabled a save overwrites a document that exists only
\* after a backup with the content it had was written; when the backup
\* cannot be made the save fails and the document stays as it was; when no
\* document exists the backup is skipped and the save goes on.
C25_BackupBeforeOverwrite ==
    [][ last'.op = "commit" /\ config.BackupEnabled =>
          /\ netplanFile.Exists /\ netplanFile' # netplanFile =>
                /\ \E s \in DOMAIN backups' :
                      backups'[s] = [whole |-> TRUE, content |-> netplanFile]
                /\ PlaceOf(last'.trace, "backup") > 0
                /\ PlaceOf(last'.trace, "backup") < PlaceOf(last'.trace, "saveDoc")
          /\ last'.backup \in {"open", "create", "copy"} =>
                /\ last'.commit = "saveDoc"
                /\ netplanFile' = netplanFile
                /\ ~Has(last'.trace, "saveDoc")
          /\ ~netplanFile.Exists /\ last'.backup # "notReached" =>
                /\ last'.backup = "skipped"
                /\ backups' = backups
                /\ last'.commit = "none" => netplanFile'.Exists
      ]_vars

\* a commit wrote a document without 10.0.0.1 over one that listed it, and a
\* backup made by that commit holds the document that listed it
C25_Witness ==
    /\ last.op = "commit"
    /\ last.commit = "none"
    /\ last.backup = "none"
    /\ IP_A \notin ListedIPs(netplanFile)
    /\ \E s \in DOMAIN backups :
          backups[s].whole /\ IP_A \in ListedIPs(backups[s].content)

-----------------------------------------------------------------------------
(* The subnet resolver on every configuration of a small family: the       *)
(* Manager is made with a list of interface mappings, and                  *)
(* findInterfaceForIP and getSubnetMaskForIP are called with an address.   *)

\* interface mappings a configuration may hold
MaxMappings == 2

IP_10_5     == <<"1", "0", ".", "5", ".", "5", ".", "5">>                 \* 10.5.5.5
CIDR_10_24  == <<"1", "0", ".", "0", ".", "0", ".", "0", "/", "2", "4">>  \* 10.0.0.0/24
CIDR_BAD    == <<"1", "0", ".", "0", ".", "0", ".", "0", "/", "3", "3">>  \* 10.0.0.0/33

\* the subnets of one mapping
SubnetLists ==
    {<<CIDR_192, CIDR_10>>, <<CIDR_10>>, <<CIDR_10_24>>, <<CIDR_10_24, CIDR_10>>,
     <<CIDR_BAD, CIDR_10>>, <<CIDR_172>>}

\* config.InterfaceMapping
Mappings == [Interface : {Eth0, <<"eth1">>}, Subnets : SubnetLists]

\* the strings passed as IP address
ResolveInputs == {IP_A, IP_10_5, IP_C, IP_NOMAP, IP_BAD, IP_EMPTY}

\* a call of Manager.findInterfaceForIP
FindInterface(ipAddr) ==
    /\ last' = [op |-> "findInterfaceForIP", ip |-> ipAddr,
                result |-> findInterfaceForIP(config.InterfaceMappings, ipAddr)]
    /\ UNCHANGED <<journal, committed, netplanFile, addresses, fresh, focus, config,
                   backups, mutex, threads>>

\* a call of Manager.getSubnetMaskForIP
GetSubnetMask(ipAddr) ==
    /\ last' = [op |-> "getSubnetMaskForIP", ip |-> ipAddr,
                result |-> getSubnetMaskForIP(config.InterfaceMappings, ipAddr)]
    /\ UNCHANGED <<journal, committed, netplanFile, addresses, fresh, focus, config,
                   backups, mutex, threads>>

NextResolve ==
    \/ \E ip \in ResolveInputs : FindInterface(ip)
    \/ \E ip \in ResolveInputs : GetSubnetMask(ip)

\* NewManagerWithConfig with a list of up to MaxMappings mappings
InitResolve ==
    /\ \E n \in 0..MaxMappings : \E ms \in [1..n -> Mappings] :
           config = [InterfaceMappings |-> ms, BackupEnabled |-> FALSE]
    /\ journal = EmptyMap
    /\ committed = EmptyMap
    /\ netplanFile = NoFile
    /\ addresses = EmptyMap
    /\ last = NoCall
    /\ fresh = [id \in TxIds |-> [tracking |-> FALSE, calls |-> <<>>]]
    /\ mutex = ""
    /\ threads = [t \in Threads |-> NoThread]
    /\ backups = EmptyMap
    /\ focus = "resolve"

SpecResolve == InitResolve /\ [][NextResolve]_vars

-----------------------------------------------------------------------------
(* Properties of the subnet resolver (under SpecResolve).                  *)

\* the (mapping, subnet) places of a mapping list whose CIDR contains the
\* address ipAddr parses to
Hits(ms, ipAddr) ==
    UNION {{<<m, k>> : k \in {j \in 1..Len(ms[m].Subnets) :
                                /\ ParseCIDR(ms[m].Subnets[j]).Ok
                                /\ Contains(ParseCIDR(ms[m].Subnets[j]), ParseIP(ipAddr))}} :
           m \in 1..Len(ms)}

\* the first of a set of places in the order of declaration
FirstHit(hits) ==
    CHOOSE h \in hits :
        \A g \in hits : h[1] < g[1] \/ (h[1] = g[1] /\ h[2] <= g[2])

\* C26: for every mapping list and every well-formed IP findInterfaceForIP
\* returns the interface of the first pair of mapping and subnet, mappings
\* in the order of declaration and subnets in their order within a mapping,
\* whose CIDR contains the IP, and the resolution failure when no subnet
\* contains it.
C26_FirstMatchWins ==
    last.op = "findInterfaceForIP" /\ ParseIP(last.ip) # <<>> =>
        LET ms   == config.InterfaceMappings
            hits == Hits(ms, last.ip)
        IN  IF hits = {}
            THEN last.result = [iface |-> <<>>, err |-> "nomapping"]
            ELSE last.result = [iface |-> ms[FirstHit(hits)[1]].Interface, err |-> "none"]

\* 10.0.0.1 was resolved with two mappings that both contain it, for
\* different interfaces, and the first one was returned
C26_Witness ==
    /\ last.op = "findInterfaceForIP"
    /\ last.ip = IP_A
    /\ Len(config.InterfaceMappings) = 2
    /\ config.InterfaceMappings[1].Interface # config.InterfaceMappings[2].Interface
    /\ \E g, h \in Hits(config.InterfaceMappings, IP_A) : g[1] = 1 /\ h[1] = 2
    /\ last.result.iface = config.InterfaceMappings[1].Interface

\* the text of a CIDR after its "/"
PrefixLengthText(cidr) == SubSeq(cidr, IndexOf(cidr, "/") + 1, Len(cidr))

\* C27: getSubnetMaskForIP returns "/n" with n the prefix length of the
\* first configured CIDR that contains the IP (10.5.5.5 with eth0:
\* [192.168.1.0/24, 10.0.0.0/8] gives "/8"); for a well-formed IP of no
\* subnet "/32" and an error; for a string that is no IP an error and no
\* mask, an outcome other than that of no subnet.
C27_MaskOfFirstMatch ==
    last.op = "getSubnetMaskForIP" =>
        LET ms   == config.InterfaceMappings
            hits == Hits(ms, last.ip)
        IN  IF ParseIP(last.ip) = <<>>
            THEN /\ last.result.mask = <<>>
                 /\ last.result.err \notin {"none", "nosubnet"}
            ELSE IF hits = {}
            THEN last.result = [mask |-> <<"/", "3", "2">>, err |-> "nosubnet"]
            ELSE /\ last.result.err = "none"
                 /\ last.result.mask = <<"/">> \o Itoa(Atoi(PrefixLengthText(
                        ms[FirstHit(hits)[1]].Subnets[FirstHit(hits)[2]])))

\* the mask of 10.5.5.5 was asked for with eth0: [192.168.1.0/24, 10.0.0.0/8]
\* as the first mapping, and "/8" was returned
C27_Witness ==
    /\ last.op = "getSubnetMaskForIP"
    /\ last.ip = IP_10_5
    /\ Len(config.InterfaceMappings) >= 1
    /\ config.InterfaceMappings[1] = [Interface |-> Eth0, Subnets |-> <<CIDR_192, CIDR_10>>]
    /\ last.result = [mask |-> <<"/", "8">>, err |-> "none"]

-----------------------------------------------------------------------------
(* The bind RPCs with every outcome of staging: addresses of no subnet,    *)
(* strings that are no address, writes of the journal that fail, and       *)
(* entries that are no longer pending.                                     *)

\* addresses of the binds where the bind RPCs are what a run follows
BindInputs == {IP_A, IP_NOMAP, IP_BAD, IP_EMPTY}

NextBind ==
    \/ \E id \in TxIds \cup {""}, ip \in BindInputs, port \in Ports,
          saveOk \in BOOLEAN, lbOk \in BOOLEAN :
           CreateBindRPC(id, ip, port, saveOk, lbOk)
    \/ \E id \in TxIds, ip \in BindInputs, lbOk \in BOOLEAN :
           DeleteBindRPC(id, ip, TRUE, lbOk)
    \/ \E id \in TxIds, fault \in ContextFaults :
           CommitTransactionRPC(id, TRUE, fault, TRUE, TRUE)

InitBind == InitManager /\ journal = EmptyMap /\ focus = "bind"

SpecBind == InitBind /\ [][NextBind]_vars

-----------------------------------------------------------------------------
(* Properties of the CreateBind RPC (under SpecBind).                      *)

\* C29: in the CreateBind RPC a failure to stage the address of the bind is
\* a warning: the bind is still created in the load balancer, and whether
\* the RPC returns an error is decided by that creation alone.
C29_StageFailureIsWarning ==
    [][ last'.op = "CreateBind" /\ last'.id # "" =>
          LET t == last'.trace
          IN  /\ Len(t) > 0
              /\ t[Len(t)] \in {"lbAddBind", "lbAddBindErr"}
              /\ last'.rpcErr <=> t[Len(t)] = "lbAddBindErr"
              /\ last'.stage \notin {"none", "notInvoked"} =>
                    /\ t[1] = "stageErr"
                    /\ Len(t) = 2
      ]_vars

\* a CreateBind returned success although its address is of no configured
\* subnet and was not staged: the bind was created all the same
C29_Witness ==
    /\ last.op = "CreateBind"
    /\ last.stage = "resolution"
    /\ last.trace = <<"stageErr", "lbAddBind">>
    /\ ~last.rpcErr
    /\ last.id \notin DOMAIN journal

-----------------------------------------------------------------------------
(* The coordinator across restarts of the process.                         *)

\* NewManagerWithConfig gone wrong: the new Manager starts over an emptied
\* transaction directory
RestartLosingJournal ==
    /\ addresses' = EmptyMap
    /\ journal' = EmptyMap
    /\ mutex' = ""
    /\ threads' = [t \in Threads |-> NoThread]
    /\ last' = [NoCall EXCEPT !.op = "restart"] @@ [lost |-> addresses]
    /\ UNCHANGED <<committed, netplanFile, fresh, focus, config, backups>>

\* the process ends and starts again: NewManagerWithConfig makes a Manager
\* over the transaction directory and the document path of the one before,
\* with a new, empty map of addresses; the files stay as they are.  lost in
\* last is the map the Manager before the restart held
Restart ==
    /\ addresses' = EmptyMap
    /\ mutex' = ""
    /\ threads' = [t \in Threads |-> NoThread]
    /\ last' = [NoCall EXCEPT !.op = "restart"] @@ [lost |-> addresses]
    /\ UNCHANGED <<journal, committed, netplanFile, fresh, focus, config, backups>>

\* staging, commits that succeed or fail at activation, and restarts
NextRestart ==
    \/ \E id \in TxIds, ip \in ContextIPs, port \in Ports :
           StageAdd(id, ip, port, TRUE)
    \/ \E id \in TxIds, ip \in ContextIPs :
           StageRemove(id, ip, TRUE)
    \/ \E id \in TxIds, fault \in ContextFaults :
           Commit(id, fault, TRUE)
    \/ Restart

InitRestart == InitManager /\ focus = "commit"

SpecRestart == InitRestart /\ [][NextRestart]_vars

-----------------------------------------------------------------------------
(* Properties of a restart (under SpecRestart).                            *)

\* the journal entry of id can be committed: it is pending and each of its
\* changes applies to the document on disk
Committable(id) ==
    /\ id \in DOMAIN journal
    /\ journal[id].Status = "pending"
    /\ ApplyChanges(loadNetplanConfig(netplanFile), journal[id].Changes, 1).err = "none"

\* C28: staged changes are durable and the map of tracked addresses is not:
\* a restart leaves the map empty and every journal entry as it was, status
\* and changes, and a pending entry can still be committed after it: the
\* commit returns no error, archives the entry as committed with the changes
\* staged before the restart, and tracks what those changes say.
C28_RestartKeepsJournal ==
    [][ /\ last'.op = "restart" =>
              /\ addresses' = EmptyMap
              /\ DOMAIN journal' = DOMAIN journal
              /\ \A id \in DOMAIN journal :
                     /\ journal'[id].Status = journal[id].Status
                     /\ journal'[id].Changes = journal[id].Changes
        /\ \A id \in TxIds :
              last.op = "restart" /\ Committable(id) /\ Commit(id, "none", TRUE) =>
                  /\ last'.commit = "none"
                  /\ id \notin DOMAIN journal'
                  /\ id \in DOMAIN committed'
                  /\ committed'[id].Status = "committed"
                  /\ committed'[id].Changes = journal[id].Changes
                  /\ addresses' = UpdateTracking(EmptyMap, journal[id].Changes, 1)
      ]_vars

\* a restart dropped a tracked address while an entry with a staged change
\* was pending, and that entry can be committed
C28_Witness ==
    /\ last.op = "restart"
    /\ last.lost # EmptyMap
    /\ addresses = EmptyMap
    /\ \E id \in TxIds : Committable(id) /\ Len(journal[id].Changes) > 0

-----------------------------------------------------------------------------
(* The map that GetTrackedAddresses returns, in the hands of its caller.   *)
(* A Go map is a reference: a caller holds either the map `result` that   *)
(* the call made, kept in threads[t].result, or the map m.addresses of the *)
(* Manager itself.  ref says which.                                        *)

\* the map a caller sees through the reference it holds
Held(thread, live) ==
    IF thread.ref = "m.addresses" THEN live ELSE thread.result

\* GetTrackedAddresses gone wrong: it returns m.addresses itself
ReturnLiveMap(t) ==
    /\ threads' = [threads EXCEPT ![t] =
           [ref |-> "m.addresses"] @@
           [NoThread EXCEPT !.pc = "holding", !.op = "GetTrackedAddresses"]]
    /\ last' = [NoCall EXCEPT !.op = "GetTrackedAddresses", !.id = t]
    /\ UNCHANGED <<journal, committed, netplanFile, addresses, fresh, focus,
                   config, backups, mutex>>

\* a call of Manager.GetTrackedAddresses by caller t, with no other call
\* under way: the entries of m.addresses are copied into a new map, which
\* the caller keeps
GetTrackedAddresses(t) ==
    /\ threads' = [threads EXCEPT ![t] =
           [ref |-> "result"] @@
           [NoThread EXCEPT !.pc = "holding", !.op = "GetTrackedAddresses",
                            !.result = addresses]]
    /\ last' = [NoCall EXCEPT !.op = "GetTrackedAddresses", !.id = t]
    /\ UNCHANGED <<journal, committed, netplanFile, addresses, fresh, focus,
                   config, backups, mutex>>

\* what a caller does to the map it holds: tracked[ip] = iface and
\* delete(tracked, ip)
MapWrites == {"put", "delete"}

Written(m, write, ip, iface) ==
    IF write = "put" THEN MapPut(m, ip, iface) ELSE MapDel(m, ip)

\* the caller t writes to the map it holds; the write lands in the map the
\* reference is of
MutateReturned(t, write, ip, iface) ==
    /\ threads[t].pc = "holding"
    /\ IF threads[t].ref = "m.addresses"
       THEN /\ addresses' = Written(addresses, write, ip, iface)
            /\ UNCHANGED threads
       ELSE /\ threads' = [threads EXCEPT ![t].result = Written(@, write, ip, iface)]
            /\ UNCHANGED addresses
    /\ last' = [NoCall EXCEPT !.op = "mutateReturned", !.id = t]
    /\ UNCHANGED <<journal, committed, netplanFile, fresh, focus, config,
                   backups, mutex>>

\* the interfaces a caller writes into the map it holds
WrittenInterfaces == {Eth0, Vlan100}

\* the goroutines that take the tracked addresses
SnapshotCallers == {"g1"}

\* staging and commits, and a caller that takes the tracked addresses and
\* writes to what it got
NextSnapshot ==
    \/ \E id \in TxIds, ip \in ContextIPs, port \in Ports :
           StageAdd(id, ip, port, TRUE)
    \/ \E id \in TxIds, ip \in ContextIPs :
           StageRemove(id, ip, TRUE)
    \/ \E id \in TxIds, fault \in ContextFaults :
           Commit(id, fault, TRUE)
    \/ \E t \in SnapshotCallers : GetTrackedAddresses(t)
    \/ \E t \in SnapshotCallers, write \in MapWrites, ip \in ContextIPs,
          iface \in WrittenInterfaces :
           MutateReturned(t, write, ip, iface)

InitSnapshot == InitManager /\ journal = EmptyMap /\ focus = "commit"

SpecSnapshot == InitSnapshot /\ [][NextSnapshot]_vars

-----------------------------------------------------------------------------
(* Properties of the returned map (under SpecSnapshot).                    *)

Holders == {t \in Threads : threads[t].pc = "holding"}

\* C30: GetTrackedAddresses returns a snapshot copy: the map returned has
\* the entries the tracked-address map has at the call; a write of the
\* caller to the returned map (an entry put or deleted) never changes the
\* tracked-address map; and a commit never changes a map returned before.
C30_SnapshotIsCopy ==
    [][ /\ last'.op = "GetTrackedAddresses" =>
              Held(threads'[last'.id], addresses') = addresses
        /\ last'.op = "mutateReturned" => addresses' = addresses
        /\ last'.op = "commit" =>
              \A t \in Holders :
                  Held(threads'[t], addresses') = Held(threads[t], addresses)
      ]_vars

\* a caller holds a map it has written to, a commit after the call has
\* changed the tracked addresses, and the two maps differ on an address
C30_Witness ==
    /\ last.op = "commit"
    /\ last.commit = "none"
    /\ \E t \in Holders, ip \in DOMAIN addresses :
           /\ ip \in DOMAIN threads[t].result
           /\ threads[t].result[ip] # addresses[ip]
    /\ \E t \in Holders, ip \in DOMAIN addresses : ip \notin DOMAIN threads[t].result

-----------------------------------------------------------------------------
(* One change against interface identifiers of every shape: no "@", one    *)
(* "@" (with a label or a parent that may be empty) and more than one.     *)

InterfaceNames ==
    {Eth0, Vlan100, <<"vlan100", "@">>, <<"vlan100", "@", "eth0", "@", "eth1">>}

\* the documents found at the configured path, and no document
ParseDocuments ==
    {d \in ChangeDocuments :
        /\ d.Extra = EmptyMap
        /\ \A n \in DOMAIN d.Ethernets : d.Ethernets[n] \in {RawInterface(<<B8>>, TRUE)}
        /\ \A n \in DOMAIN d.Vlans :
               d.Vlans[n] \in {RawVLAN(<<A24>>, <<"eth0">>, FALSE),
                                RawVLAN(<<>>, <<>>, FALSE)}}

NextParse ==
    \E operation \in {"add", "remove"}, ip \in ContextIPs, name \in InterfaceNames :
        ApplyOneChange(operation, ip, name)

InitParse ==
    /\ netplanFile \in ParseDocuments
    /\ journal = EmptyMap
    /\ committed = EmptyMap
    /\ addresses = EmptyMap
    /\ last = NoCall
    /\ fresh = [id \in TxIds |-> [tracking |-> FALSE, calls |-> <<>>]]
    /\ mutex = ""
    /\ threads = [t \in Threads |-> NoThread]
    /\ config = RunningConfig
    /\ backups = EmptyMap
    /\ focus = "change"

SpecParse == InitParse /\ [][NextParse]_vars

-----------------------------------------------------------------------------
(* Properties of the interface-name parser (under SpecParse).              *)

\* the number of "@" in an interface identifier
Separators(interfaceName) ==
    Cardinality({k \in 1..Len(interfaceName) : interfaceName[k] = "@"})

\* C31: parseInterfaceName takes an identifier for a VLAN, label before the
\* "@" and parent after it, exactly when it holds exactly one "@"; with no
\* "@" and with more than one the identifier is a plain interface named by
\* the whole identifier, and a change against it leaves the VLANs as they
\* are and works on the ethernets entry under that literal name: an add puts
\* the address there unless an entry there starts with the IP, a remove
\* filters the entry's addresses and drops the entry when none is left.
C31_OneSeparatorIsVLAN ==
    [][ last'.op = "applyChange" =>
          LET change == last'.change
              name   == change.Interface
              p      == parseInterfaceName(name)
              old    == loadNetplanConfig(netplanFile)
              new    == loadNetplanConfig(netplanFile')
              before == MapGet(old.Ethernets, name, ZeroInterface).Addresses
          IN  /\ p.isVLAN <=> Separators(name) = 1
              /\ p.isVLAN => name = p.vlanName \o <<"@">> \o p.nicName
              /\ ~p.isVLAN =>
                    /\ p.nicName = name
                    /\ new.Vlans = old.Vlans
                    /\ \A k \in (DOMAIN old.Ethernets \cup DOMAIN new.Ethernets) \ {name} :
                           /\ k \in DOMAIN old.Ethernets
                           /\ k \in DOMAIN new.Ethernets
                           /\ new.Ethernets[k] = old.Ethernets[k]
                    /\ change.Operation = "add" =>
                           /\ name \in DOMAIN new.Ethernets
                           /\ new.Ethernets[name].Addresses =
                                  IF AddressExists(before, change.IPAddress)
                                  THEN before
                                  ELSE Append(before, change.IPAddress \o change.SubnetMask)
                    /\ change.Operation = "remove" =>
                           IF FilterAddresses(before, change.IPAddress) = <<>>
                           THEN name \notin DOMAIN new.Ethernets
                           ELSE new.Ethernets[name].Addresses =
                                    FilterAddresses(before, change.IPAddress)
      ]_vars

\* an add against an identifier with two "@" has put its address under the
\* ethernets entry of that whole identifier, next to a VLAN that was there
C31_Witness ==
    /\ last.op = "applyChange"
    /\ last.change.Operation = "add"
    /\ Separators(last.change.Interface) = 2
    /\ last.change.Interface \in DOMAIN netplanFile.Ethernets
    /\ netplanFile.Ethernets[last.change.Interface]["addresses"] =
           <<last.change.IPAddress \o <<"/", "8">> >>
    /\ <<"vlan100">> \in DOMAIN netplanFile.Vlans

-----------------------------------------------------------------------------
(* Properties of a CreateBind that fails in the load balancer (under       *)
(* SpecBind).                                                              *)

\* C32: when CreateBind has staged the address of its bind and the creation
\* of the bind in the load balancer then fails, the staged address is never
\* added to the document: no call that follows, a CommitTransaction on the
\* same transaction id included, writes a document that lists the address.
C32_FailedBindNeverApplied ==
    [][ /\ last.op = "CreateBind"
        /\ last.rpcErr
        /\ last.stage = "none"
        /\ last.id \in DOMAIN journal
        => LET changes == journal[last.id].Changes
               staged  == changes[Len(changes)]
           IN  staged.IPAddress \notin ListedIPs(netplanFile)
                   => staged.IPAddress \notin ListedIPs(netplanFile')
      ]_vars

-----------------------------------------------------------------------------
(* Commit calls side by side: two goroutines stage and commit, every step  *)
(* of a commit succeeds, and last tells of the call that returned last.    *)

NextCommits ==
    \/ \E t \in Threads, id \in TxIds, ip \in ThreadIPs, port \in Ports :
           BeginStage(t, "add", id, ip, port)
    \/ \E t \in Threads, id \in TxIds :
           BeginCommit(t, id, "none")
    \/ \E t \in Threads : Lock(t)
    \/ \E t \in Threads : StageLoad(t)
    \/ \E t \in Threads : StageSave(t)
    \/ \E t \in Threads : CommitPersist(t)
    \/ \E t \in Threads : CommitTrack(t)
    \/ \E t \in Threads : CommitArchive(t)
    \/ \E t \in Threads : Unlock(t)

InitCommits == InitManager /\ journal = EmptyMap /\ focus = "calls"

SpecCommits == InitCommits /\ [][NextCommits]_vars

-----------------------------------------------------------------------------
(* Properties of commit calls side by side (under SpecCommits).            *)

\* the goroutine q takes the step of its commit that loads the entry and,
\* when all goes well, writes the document
PersistStep(q) ==
    /\ threads[q].op = "commit"
    /\ threads[q].pc = "persist"
    /\ threads'[q].pc # "persist"

\* the other goroutines whose commit of the same id has written the document
Applied(q) ==
    {u \in Threads \ {q} :
        /\ threads[u].op = "commit"
        /\ threads[u].id = threads[q].id
        /\ threads[u].pc \in {"track", "unlock"}
        /\ threads[u].err = "none"}

\* C33: of two commit calls on one pending transaction id that run side by
\* side, with no step failing from outside, exactly one applies the changes:
\* the call that finds the entry pending writes the document with the
\* entry's changes while no other call on the id is past that point, and
\* succeeds; the call that was under way when that one returned finds the
\* entry gone or not pending and returns the error, with the document, the
\* tracked-address map and the transaction files as they were.
C33_OneCommitApplies ==
    [][ \A q \in Threads : PersistStep(q) =>
          LET id == threads[q].id
          IN  /\ id \in DOMAIN journal /\ journal[id].Status = "pending" =>
                    /\ threads'[q].pc = "track"
                    /\ Applied(q) = {}
                    /\ netplanFile' = PersistChanges(netplanFile, journal[id].Changes)
              /\ threads'[q].pc = "track" =>
                    /\ id \in DOMAIN journal
                    /\ journal[id].Status = "pending"
              /\ ( /\ last.op = "return"
                   /\ last.call = "commit"
                   /\ last.err = "none"
                   /\ last.id = id
                   /\ last.thread # q
                   /\ q \in last.inflight )
                 => /\ threads'[q].pc = "unlock"
                    /\ threads'[q].err \in {"missing", "notPending"}
                    /\ netplanFile' = netplanFile
                    /\ addresses' = addresses
                    /\ journal' = journal
                    /\ committed' = committed
      ]_vars

\* a commit that was under way while another commit of the same id succeeded
\* and returned has found the entry gone; the address is tracked and listed
C33_Witness ==
    /\ last.op = "return"
    /\ last.call = "commit"
    /\ last.err = "none"
    /\ \E q \in last.inflight :
           /\ threads[q].op = "commit"
           /\ threads[q].id = last.id
           /\ threads[q].pc = "unlock"
           /\ threads[q].err = "missing"
    /\ last.id \in DOMAIN committed
    /\ Len(committed[last.id].Changes) > 0
    /\ IP_A \in DOMAIN addresses
    /\ IP_A \in ListedIPs(netplanFile)

-----------------------------------------------------------------------------
(* Properties of the tracked-address map across calls (under Spec).        *)

\* the outcomes of a commit that returns before or at the activation
BeforeTracking ==
    {"missing", "notPending", "loadDoc", "apply", "saveDoc", "activate"}

\* C34: through the transactional calls the tracked-address map changes
\* only inside a commit whose document save and activation both succeeded:
\* stageAdd, stageRemove and every commit that fails at loading the entry,
\* at the pending test, at loading the document, at applying a change, at
\* saving the document or at activation leave the map exactly as it was.
C34_TrackingOnlyAfterActivation ==
    [][ /\ last'.op \in {"stageAdd", "stageRemove"} => addresses' = addresses
        /\ last'.op = "commit" /\ last'.commit \in BeforeTracking =>
              addresses' = addresses
        /\ addresses' # addresses =>
              /\ last'.op = "commit"
              /\ \E i, j \in 1..Len(last'.trace) :
                     /\ i < j
                     /\ last'.trace[i] = "saveDoc"
                     /\ last'.trace[j] = "activate"
      ]_vars

\* with an address tracked by a commit before, a commit of a staged add of
\* another address failed at activation: the document lists that address,
\* the entry is marked failed, and the address is not tracked
C34_Witness ==
    /\ last.op = "commit"
    /\ last.commit = "activate"
    /\ addresses # EmptyMap
    /\ last.id \in DOMAIN journal
    /\ journal[last.id].Status = "failed"
    /\ \E k \in 1..Len(journal[last.id].Changes) :
           /\ journal[last.id].Changes[k].Operation = "add"
           /\ journal[last.id].Changes[k].IPAddress \in ListedIPs(netplanFile)
           /\ journal[last.id].Changes[k].IPAddress \notin DOMAIN addresses

\* C35: tracking agrees with the document: from no document and an empty
\* tracked-address map, with commits as the only writers of the document,
\* after every successful commit each tracked IP has an address entry for it
\* (the IP with some mask) under its tracked interface, plain or VLAN, in
\* the document on disk.
C35_TrackedIsListed ==
    last.op = "commit" /\ last.commit = "none" =>
        \A ip \in DOMAIN addresses :
            EntriesFor(ListedUnder(netplanFile, addresses[ip]), ip) # {}

-----------------------------------------------------------------------------
(* The coordinator called with transaction ids of every spelling: the ids  *)
(* of the other specifications and one with path separators in it.         *)

CallIds == TxIds \cup {TraversalId}

NextIds ==
    \/ \E id \in CallIds, ip \in ThreadIPs, port \in Ports :
           StageAdd(id, ip, port, TRUE)
    \/ \E id \in CallIds, ip \in ThreadIPs :
           StageRemove(id, ip, TRUE)
    \/ \E id \in CallIds, o \in CommitOutcomes :
           Commit(id, o[1], o[2])

InitIds == InitManager /\ focus = "ids"

SpecIds == InitIds /\ [][NextIds]_vars

-----------------------------------------------------------------------------
(* Properties of calls on different transaction ids (under SpecIds).       *)

\* the files of the ids other than id are as they were: none made, changed,
\* moved or deleted, in the journal directory and in committed
FilesOfOthersKept(id) ==
    \A other \in TxIds \ {id} :
        /\ other \in DOMAIN journal' <=> other \in DOMAIN journal
        /\ other \in DOMAIN journal => journal'[other] = journal[other]
        /\ other \in DOMAIN committed' <=> other \in DOMAIN committed
        /\ other \in DOMAIN committed => committed'[other] = committed[other]

\* C36: journal entries of different transaction ids are isolated: stageAdd,
\* stageRemove and commit on an id, on every path of theirs, never create,
\* change, move or delete the journal file or the archived file of another
\* id.
C36_IdsIsolated ==
    [][ /\ \A id \in CallIds, ip \in ThreadIPs, port \in Ports :
               StageAdd(id, ip, port, TRUE) => FilesOfOthersKept(id)
        /\ \A id \in CallIds, ip \in ThreadIPs :
               StageRemove(id, ip, TRUE) => FilesOfOthersKept(id)
        /\ \A id \in CallIds, o \in CommitOutcomes :
               Commit(id, o[1], o[2]) => FilesOfOthersKept(id)
      ]_vars

-----------------------------------------------------------------------------
(* The two resolvers side by side, and staging, for a Manager made with    *)
(* any list of mappings.                                                   *)

\* the strings passed to the resolvers, and those staged
AgreeInputs == {IP_A, IP_10_5, IP_BAD}

StagedInputs == {IP_10_5, IP_BAD, IP_EMPTY}

\* config.InterfaceMapping
AgreeMappings ==
    [Interface : {Eth0, <<"eth1">>},
     Subnets   : {<<CIDR_10_24, CIDR_10>>, <<CIDR_10>>, <<CIDR_BAD, CIDR_10_24>>}]

\* a call of Manager.AddIPAddressToTransaction of a Manager with the
\* mappings of config; last keeps what the two resolvers gave it
StageAddResolved(id, ipAddr, port) ==
    \E f \in {findInterfaceForIP(config.InterfaceMappings, ipAddr)} :
    \E m \in {getSubnetMaskForIP(config.InterfaceMappings, ipAddr)} :
    \E r \in {AddIPAddressResolved(f, m, World, id, ipAddr, port, TRUE)} :
        /\ WithinBounds(r.w)
        /\ SetWorld(r.w)
        /\ last' = [op |-> "stageAdd", id |-> id, ip |-> ipAddr, stage |-> r.err]
        /\ UNCHANGED <<fresh, focus, config, backups, mutex, threads>>

NextAgree ==
    \/ \E ip \in AgreeInputs : FindInterface(ip)
    \/ \E ip \in AgreeInputs : GetSubnetMask(ip)
    \/ \E ip \in StagedInputs, port \in Ports : StageAddResolved("t1", ip, port)

\* NewManagerWithConfig with a list of up to MaxMappings mappings
InitAgree ==
    /\ \E n \in 0..MaxMappings : \E ms \in [1..n -> AgreeMappings] :
           config = [InterfaceMappings |-> ms, BackupEnabled |-> FALSE]
    /\ journal = EmptyMap
    /\ committed = EmptyMap
    /\ netplanFile = NoFile
    /\ addresses = EmptyMap
    /\ last = NoCall
    /\ fresh = [id \in TxIds |-> [tracking |-> FALSE, calls |-> <<>>]]
    /\ mutex = ""
    /\ threads = [t \in Threads |-> NoThread]
    /\ backups = EmptyMap
    /\ focus = "agree"

SpecAgree == InitAgree /\ [][NextAgree]_vars

-----------------------------------------------------------------------------
(* Properties of the two resolvers together (under SpecAgree).             *)

\* "/n" for the prefix length n of the CIDR at a place of a mapping list
MaskAt(ms, h) ==
    <<"/">> \o Itoa(Atoi(PrefixLengthText(ms[h[1]].Subnets[h[2]])))

\* C37: the two resolvers agree: for every mapping list and every string
\* passed as IP, getSubnetMaskForIP called after findInterfaceForIP on the
\* same string succeeds exactly when that one did, and the interface and
\* the mask are those of one and the same pair of mapping and subnet, the
\* first that contains the IP; so every add-change that stageAdd appends
\* carries the interface of that pair and the prefix length of its CIDR.
C37_ResolversAgree ==
    [][ LET ms == config.InterfaceMappings
        IN  /\ ( /\ last.op = "findInterfaceForIP"
                 /\ last'.op = "getSubnetMaskForIP"
                 /\ last'.ip = last.ip )
               => /\ last.result.err = "none" <=> last'.result.err = "none"
                  /\ last.result.err = "none" =>
                        LET h == FirstHit(Hits(ms, last.ip))
                        IN  /\ Hits(ms, last.ip) # {}
                            /\ last.result.iface = ms[h[1]].Interface
                            /\ last'.result.mask = MaskAt(ms, h)
            /\ last'.op = "stageAdd" /\ last'.stage = "none" =>
                  LET changes == journal'[last'.id].Changes
                      staged  == changes[Len(changes)]
                      h       == FirstHit(Hits(ms, last'.ip))
                  IN  /\ Hits(ms, last'.ip) # {}
                      /\ staged.IPAddress = last'.ip
                      /\ staged.Interface = ms[h[1]].Interface
                      /\ staged.SubnetMask = MaskAt(ms, h)
            /\ last'.op = "stageAdd" /\ last'.stage # "none" =>
                  /\ journal' = journal
                  /\ ParseIP(last'.ip) = <<>> \/ Hits(ms, last'.ip) = {}
      ]_vars

\* 10.5.5.5 was staged under mappings of which the first has 10.0.0.0/8 and
\* the second 10.0.0.0/24 does not contain it: the change has eth1 and "/8"
C37_Witness ==
    /\ last.op = "stageAdd"
    /\ last.stage = "none"
    /\ last.ip = IP_10_5
    /\ Len(config.InterfaceMappings) = 2
    /\ config.InterfaceMappings[1] = [Interface |-> <<"eth1">>, Subnets |-> <<CIDR_10_24, CIDR_10>>]
    /\ config.InterfaceMappings[2] = [Interface |-> Eth0, Subnets |-> <<CIDR_10>>]
    /\ journal["t1"].Changes[1].Interface = <<"eth1">>
    /\ journal["t1"].Changes[1].SubnetMask = <<"/", "8">>

-----------------------------------------------------------------------------
(* Properties of a remove that matches nothing (under SpecChange).         *)

\* the entries of the document, as loadNetplanConfig reads them, in the
\* mapping an interface name goes to
EntriesRead(file, name) ==
    IF Len(name) = 1 THEN loadNetplanConfig(file).Ethernets
    ELSE loadNetplanConfig(file).Vlans

\* C38: a remove-change whose IP matches no address of its interface leaves
\* the document as it was: an interface or VLAN entry that exists keeps its
\* key and all its settings, and an entry that does not exist is not made.
C38_RemoveOfNothing ==
    [][ \A ip \in ContextIPs, name \in {Eth0, Vlan100} :
          ( /\ ApplyOneChange("remove", ip, name)
            /\ ~AddressExists(ListedUnder(netplanFile, name), ip) )
          => LET old == EntriesRead(netplanFile, name)
                 new == EntriesRead(netplanFile', name)
             IN  /\ DOMAIN new = DOMAIN old
                 /\ \A key \in DOMAIN old : new[key] = old[key]
      ]_vars

-----------------------------------------------------------------------------
(* Properties of the activation after the commit (under SpecRPC).          *)

\* C39: a CommitTransaction RPC whose coordinator commit succeeds runs the
\* activation twice, once inside the coordinator's commit, before the entry
\* is archived, and once by the service after it.  Whether the second one
\* fails or not, the RPC returns no error and leaves the journal (the entry
\* archived as committed), the document and the tracked map as the
\* coordinator's commit left them.
C39_SecondActivationOnlyLogged ==
    [][ \A id \in TxIds, apply2Ok \in BOOLEAN :
          ( /\ CommitTransactionRPC(id, TRUE, "none", TRUE, apply2Ok)
            /\ last'.commit = "none" )
          => LET r     == CommitTransaction(World, id, "none", TRUE)
                 trace == last'.trace
                 file  == TransactionFile(id)
             IN  /\ Count(trace, "activate") = 1
                 /\ Count(trace, "serviceActivate")
                        + Count(trace, "serviceActivateErr") = 1
                 /\ IndexOf(trace, "activate") < IndexOf(trace, "archive")
                 /\ IndexOf(trace, "archive") = Len(trace) - 1
                 /\ trace[Len(trace)] = (IF apply2Ok THEN "serviceActivate"
                                         ELSE "serviceActivateErr")
                 /\ ~last'.rpcErr
                 /\ file \notin DOMAIN journal'
                 /\ file \in DOMAIN committed'
                 /\ committed'[file].Status = "committed"
                 /\ journal' = r.w.journal
                 /\ committed' = r.w.committed
                 /\ netplanFile' = r.w.netplanFile
                 /\ addresses' = r.w.addresses
      ]_vars

\* a commit by RPC has succeeded in the coordinator, the activation of the
\* service after it has failed, and an address is tracked
C39_Witness ==
    /\ last.op = "CommitTransaction"
    /\ last.commit = "none"
    /\ last.trace # <<>>
    /\ last.trace[Len(last.trace)] = "serviceActivateErr"
    /\ addresses # EmptyMap
    /\ netplanFile.Exists

-----------------------------------------------------------------------------
(* Calls side by side under fair scheduling: two goroutines stage and      *)
(* commit, a commit fails at any of its external steps, and every          *)
(* goroutine that can take a step takes one in the end.  No goroutine      *)
(* reads the map without the lock here, so none brings the process down.   *)

\* the changes the journal and the archive hold, with those the staging
\* calls under way will add
ChangesUnderWay ==
    HeldChanges(journal, DOMAIN journal)
        + HeldChanges(committed, DOMAIN committed)
        + Cardinality({t \in Threads : threads[t].op = "stage"})

\* the transaction the calls are on, and the outcomes of a commit: no
\* failure, a failure after which markTransactionFailed runs, and one after
\* which it does not
FairIds == {"t1"}

FairFaults == {"none", "activate", "saveTx"}

NextFair ==
    \/ \E t \in Threads, id \in FairIds, ip \in ThreadIPs, port \in Ports :
           ChangesUnderWay < MaxChanges /\ BeginStage(t, "add", id, ip, port)
    \/ \E t \in Threads, id \in FairIds, ip \in ThreadIPs :
           ChangesUnderWay < MaxChanges /\ BeginStage(t, "remove", id, ip, 0)
    \/ \E t \in Threads, id \in FairIds, fault \in FairFaults :
           BeginCommit(t, id, fault)
    \/ \E t \in Threads : Lock(t)
    \/ \E t \in Threads : StageLoad(t)
    \/ \E t \in Threads : StageSave(t)
    \/ \E t \in Threads : CommitPersist(t)
    \/ \E t \in Threads : CommitTrack(t)
    \/ \E t \in Threads : CommitArchive(t)
    \/ \E t \in Threads : Unlock(t)

InitFair == InitManager /\ journal = EmptyMap /\ focus = "fair"

\* the code of a call between m.mutex.Lock() and its return, but for the
\* step of commit that runs the netplan command: it waits for nothing but
\* the file system, which comes back
HoldingSteps(t) ==
    \/ threads[t].pc = "load" /\ StageLoad(t)
    \/ threads[t].pc = "save" /\ StageSave(t)
    \/ threads[t].pc = "track" /\ (CommitTrack(t) \/ CommitArchive(t))
    \/ threads[t].pc = "unlock" /\ Unlock(t)

\* the netplan command terminates: no commit stays for ever at the step
\* that runs it (CommitPersist can be taken wherever a commit is at it)
ActivationTerminates(t) == []<>(threads[t].pc # "persist")

\* a goroutine that can run does run, and a goroutine that waits for the
\* mutex gets it when it is free again and again (sync.Mutex hands the lock
\* to a waiter that has starved)
Fairness ==
    \A t \in Threads :
        /\ WF_vars(HoldingSteps(t))
        /\ SF_vars(Lock(t))
        /\ ActivationTerminates(t)

SpecFair == InitFair /\ [][NextFair]_vars /\ Fairness

-----------------------------------------------------------------------------
(* Properties of calls under fair scheduling (under SpecFair).             *)

\* C40: no deadlock.  The mutex is held by no goroutine that is outside a
\* call or waits to enter one, so it is released on every return path of
\* the staging calls and of commit, the error paths with markFailed among
\* them; and every staging or commit call that has begun returns.
C40_CallsReturn ==
    /\ [](\A t \in Threads : threads[t].pc \in {"idle", "lock"} => mutex # t)
    /\ \A t \in Threads : (threads[t].pc # "idle") ~> (threads[t].pc = "idle")

\* a commit has failed after the document was saved, its entry is marked
\* failed, it still holds the mutex, and the other goroutine waits for it
C40_Witness ==
    \E t \in Threads, u \in Threads :
        /\ threads[t].pc = "unlock"
        /\ threads[t].op = "commit"
        /\ threads[t].err = "activate"
        /\ mutex = t
        /\ TransactionFile(threads[t].id) \in DOMAIN journal
        /\ journal[TransactionFile(threads[t].id)].Status = "failed"
        /\ threads[u].pc = "lock"

====
